---- MODULE Spec2Model ----
(***************************************************************************)
(* Paper-trading engines of the trading bot: bot/main.py (one process per  *)
(* pair, spawned by bot/bot_manager.py) and bot/main_multi_pair.py (one    *)
(* process for all pairs), both working on the SQLite tables of bot/db.py. *)
(*                                                                         *)
(* Every call into db.py is one atomic step of the calling process (each   *)
(* opens its own connection and commits); the Python code between two      *)
(* calls is folded into the step of the call that follows it.              *)
(*                                                                         *)
(* The specifications share the variables.  Spec is the engines on         *)
(* closed candles.  SpecRegistry is the strategy registry of               *)
(* bot/strategy_manager.py with its callers, the module initialisation of  *)
(* bot/main.py and POST /api/strategies of server/app.py.  SpecBuffer is   *)
(* the candle buffer of bot/main.py under open and closed candlestick      *)
(* events.  SpecStrategy is the pure functions of bot/strategy.py and      *)
(* bot/strategies/simple_ema.py, and _resolve_trade_sizing of the engines, *)
(* called on a candle window; their floats are binary floating point of    *)
(* SignificandBits bits, rounded to nearest even at every operation.       *)
(* SpecRedelivery is bot/main.py handed the closed candle a second time.   *)
(* SpecManager is the monitoring loop of bot/bot_manager.py, and SpecRest  *)
(* (FairSpecRest with the fairness of the calling thread) the retry loop   *)
(* of CoinDCXREST._post and _get in bot/coindcx.py.                        *)
(*                                                                         *)
(* Units.  Prices are integers in tenths, quantities in thousandths, the   *)
(* INR margin budget in ten-thousandths, and money in units of             *)
(* 1/TAKER_FEE_DEN of (price unit x quantity unit), so that the taker fee  *)
(* price * quantity * 0.0005 is the integer price * quantity * 5 and the   *)
(* budget-based quantity (inr / rate) * leverage / price is an integer     *)
(* quotient on the prices and rates enumerated below.                      *)
(***************************************************************************)
EXTENDS Integers, Sequences, FiniteSets, TLC

\* ------------------------------------------------------------------ bounds
MaxCandles == 2
MaxEvents == 3
SignificandBits == 8
FractionBits == 11
MaxCalls == 2

\* --------------------------------------------------------------- constants
TAKER_FEE_NUM == 5
TAKER_FEE_DEN == 10000
CONFIDENCE_THRESHOLD == 90
DEFAULT_MAX_OPEN_TRADES == 1
CONFIG_max_open_trades == 5
CONFIG_confidence_threshold == 75
CONFIG_auto_execute == TRUE
CONFIG_tp_pct == 15
CONFIG_sl_pct == 8
PCT_DEN == 1000
CONFIG_leverage == 5
CONFIG_quantity == 1
CONFIG_inr_amount == 3000000
BUFFER_SIZE == 200
CONFIG_ema_fast == 9
CONFIG_ema_slow == 21
CONFIG_rsi_period == 14
CONFIG_rsi_overbought == 75
CONFIG_rsi_oversold == 25
CONFIG_atr_period == 14
CONFIG_macd_fast == 12
CONFIG_macd_slow == 26
CONFIG_macd_signal == 9
CONFIG_volume_ma_period == 20
CONFIG_volatility_adjusted == TRUE
SIMPLE_EMA_rsi_overbought == 70
SIMPLE_EMA_rsi_oversold == 30
SIMPLE_EMA_max_open_trades == 3
SIMPLE_EMA_confidence_threshold == 80

Pairs == {"A", "B"}
Procs == {"A", "B"}
Engines == {"main", "multi"}

\* What main.py's set_active_strategy("enhanced_v2") leaves active: nothing
\* when the registry holds no strategy of that name, else that strategy.
Activations == {"none", "enhanced_v2"}

\* Candle shapes delivered by the feed, as <<high, low, close>>.
CandleShapes ==
  { <<1000, 1000, 1000>>, <<1030, 1000, 1000>>,
    <<1000, 970, 1000>>, <<1030, 970, 1000>> }

\* INR per USDT as returned by rest.get_inr_usdt_rate(); 0 stands for None.
Rates == {0, 75}

\* Confidence values a strategy evaluation can report with a signal.
Confidences == {70, 80, 95}

InitialBalances == {100000}

\* Names a caller passes to set_active_strategy.
StrategyNames == {"simple_ema", "enhanced_v2", "unknown"}

\* What _load_strategies found in strategies/: nothing (no directory),
\* simple_ema.py, or also a strategy of the name that main.py activates.
Registries == { {}, {"simple_ema"}, {"simple_ema", "enhanced_v2"} }

\* Confidence values of the candle windows handed to the registry's evaluate.
WindowConfidences == {70, 78, 95}

\* Lengths of the list rest.get_candles returns to _seed_candles.
SeedLengths == {0, BUFFER_SIZE - 1, BUFFER_SIZE}

\* Candle shapes of the events that reach the buffer.
BufferShapes == { <<1000, 1000, 1000>>, <<1030, 970, 1000>> }

\* ----------------------------------------------------------------- helpers
Money(x) == x * TAKER_FEE_DEN

Fee(price, quantity) == price * quantity * TAKER_FEE_NUM

\* round(x, n) of Python on the price grid: nearest, ties to even.
RoundDiv(a, b) ==
  LET q == a \div b
      r == a % b
  IN  IF 2 * r < b THEN q
      ELSE IF 2 * r > b THEN q + 1
      ELSE IF q % 2 = 0 THEN q ELSE q + 1

\* ---- Python floats of the indicator code, as binary floating point with
\* SignificandBits bits, round to nearest, ties to even.  A float is the
\* integer number of units of 2^-FractionBits it is worth; below
\* 2^(SignificandBits - FractionBits) the values are the subnormal ones.
Pow2(k) == IF k <= 0 THEN 1 ELSE 2 ^ k

RECURSIVE Pow10(_)
Pow10(k) == IF k <= 0 THEN 1 ELSE 10 * Pow10(k - 1)

\* Number of bits of n >= 0.
RECURSIVE Lg(_)
Lg(n) ==
  IF n >= 65536 THEN 16 + Lg(n \div 65536)
  ELSE IF n >= 256 THEN 8 + Lg(n \div 256)
  ELSE IF n >= 16 THEN 4 + Lg(n \div 16)
  ELSE IF n >= 4 THEN 2 + Lg(n \div 4)
  ELSE IF n >= 2 THEN 2
  ELSE IF n = 1 THEN 1 ELSE 0

UNIT == Pow2(FractionBits)

Abs(x) == IF x < 0 THEN 0 - x ELSE x

Sgn(x) == IF x < 0 THEN 0 - 1 ELSE 1

Max(a, b) == IF a >= b THEN a ELSE b

Min(a, b) == IF a <= b THEN a ELSE b

\* The float nearest to num / den, for num >= 0 and den > 0.
RoundTo(num, den) ==
  LET excess == Lg(num \div den) - SignificandBits
  IN  IF excess <= 0 THEN RoundDiv(num, den)
      ELSE RoundDiv(num, den * Pow2(excess)) * Pow2(excess)

\* The exponent and the significand of a float: x = Sig(x) * 2^Exp(x) units.
Exp(x) == Max(0, Lg(Abs(x)) - SignificandBits)

Sig(x) == Abs(x) \div Pow2(Exp(x))

\* Body applied to the value of e, which is computed once.
With(e, Body(_)) == CHOOSE r \in { Body(x) : x \in { e } } : TRUE

With2(e1, e2, Body(_, _)) ==
  CHOOSE r \in { Body(x, y) : x \in { e1 }, y \in { e2 } } : TRUE

\* float(i) of an int.
Float(i) == With(i, LAMBDA n : Sgn(n) * RoundTo(Abs(n) * UNIT, 1))

FAdd(x, y) == With(x + y, LAMBDA sum : Sgn(sum) * RoundTo(Abs(sum), 1))

FSub(x, y) == FAdd(x, 0 - y)

FMul(x, y) ==
  With2(x, y, LAMBDA a, b :
    LET e == Exp(a) + Exp(b) - FractionBits
        m == Sig(a) * Sig(b)
    IN  Sgn(a) * Sgn(b) *
          (IF e >= 0 THEN RoundTo(m, 1) * Pow2(e) ELSE RoundTo(m, Pow2(0 - e))))

\* x / y for y # 0.
FDiv(x, y) ==
  With2(x, y, LAMBDA a, b :
    LET e == FractionBits + Exp(a) - Exp(b) - 2 * SignificandBits
        m == Sig(a) * Pow2(2 * SignificandBits)
    IN  Sgn(a) * Sgn(b) *
          (IF e >= 0 THEN RoundTo(m, Sig(b)) * Pow2(e)
           ELSE RoundTo(m, Sig(b) * Pow2(0 - e))))

\* The float of a decimal literal num / den, e.g. 0.02 = Lit(2, 100).
Lit(num, den) == FDiv(Float(num), Float(den))

\* round(x, ndigits): the decimal nearest to x, ties to even, then the float
\* nearest to that decimal; x itself when its spacing is coarser than the
\* decimal grid.
FRound(x, ndigits) ==
  With(x, LAMBDA a :
    IF Pow2(Exp(a)) * Pow10(ndigits) >= 2 * UNIT THEN a
    ELSE LET whole == Abs(a) \div UNIT
             frac == Abs(a) % UNIT
             decimal == whole * Pow10(ndigits) + RoundDiv(frac * Pow10(ndigits), UNIT)
         IN  Sgn(a) * RoundTo(decimal * UNIT, Pow10(ndigits)))

_calc_pnl(side, entry_price, exit_price, quantity, leverage) ==
  IF side = "buy"
  THEN Money((exit_price - entry_price) * quantity * leverage)
  ELSE Money((entry_price - exit_price) * quantity * leverage)

calculate_tp_sl(entry_price, position_type) ==
  IF position_type = "LONG"
  THEN << RoundDiv(entry_price * (PCT_DEN + CONFIG_tp_pct), PCT_DEN),
          RoundDiv(entry_price * (PCT_DEN - CONFIG_sl_pct), PCT_DEN) >>
  ELSE << RoundDiv(entry_price * (PCT_DEN - CONFIG_tp_pct), PCT_DEN),
          RoundDiv(entry_price * (PCT_DEN + CONFIG_sl_pct), PCT_DEN) >>

\* _resolve_trade_sizing: <<quantity, leverage, inr_rate, warned>>, inr_rate
\* 0 = None; warned: "INR sizing unavailable, falling back to fixed quantity"
\* was logged.  rate is what rest.get_inr_usdt_rate() returns if it is called.
_resolve_trade_sizing(current_price, rate) ==
  LET leverage == CONFIG_leverage
      quantity == (CONFIG_inr_amount * leverage) \div (rate * current_price)
  IN  IF CONFIG_inr_amount > 0 /\ current_price > 0
      THEN IF rate > 0 /\ quantity > 0
           THEN << quantity, leverage, rate, FALSE >>
           ELSE << CONFIG_quantity, leverage, 0, TRUE >>
      ELSE << CONFIG_quantity, leverage, 0, FALSE >>

\* A row of paper_trades.  exit_price = 0 and pnl = 0 stand for NULL on an
\* open row; opened_in and closed_in are the numbers of the candles whose
\* processing opened and closed the row (0: before the engine started, not yet).
Row(pair, side, entry, qty, lev, tp, sl, fee, pid, n) ==
  [ pair |-> pair, side |-> side, entry_price |-> entry, quantity |-> qty,
    leverage |-> lev, tp_price |-> tp, sl_price |-> sl, fee_paid |-> fee,
    status |-> "open", position_id |-> pid, exit_price |-> 0, pnl |-> 0,
    opened_in |-> n, closed_in |-> 0 ]

\* ---------------------------------------------------- tables at start-up
LongA == Row("A", "buy", 1000, 1, 5, 1015, 992, 5000, -1, 0)
ShortB == Row("B", "sell", 1000, 200, 5, 985, 1008, 1000000, -2, 0)
ShortA == Row("A", "sell", 1000, 200, 5, 985, 1008, 1000000, -3, 0)
LongA2 == Row("A", "buy", 1000, 1, 5, 1015, 992, 5000, -4, 0)
ShortA2 == Row("A", "sell", 1000, 1, 5, 985, 1008, 5000, -5, 0)

\* Two positions that main_multi_pair.py opened within one millisecond.
TwinA == Row("A", "sell", 1000, 200, 5, 985, 1008, 1000000, -6, 0)
TwinB == Row("B", "sell", 1000, 200, 5, 985, 1008, 1000000, -6, 0)

\* paper_trades as a previous run left it.
SeedTables ==
  { << >>, << LongA, ShortB >>, << LongA, ShortA, LongA2, ShortA2 >>,
    << TwinA, TwinB >> }

\* ---------------------------------------------------------------- state
VARIABLES
  engine,           \* which program runs: "main" (one process per pair) or "multi"
  active_strategy,  \* strategy_manager.active_strategy of main.py, or the strategy module
  trading_mode,     \* table trading_mode, row 1
  paper_wallet,     \* table paper_wallet, row 1
  paper_trades,     \* table paper_trades, in rowid order
  trades,           \* table trades (real positions), in rowid order
  real_orders,      \* rest.place_order calls made
  tp_sl_orders,     \* rest.place_tp_sl calls made
  time_ms,          \* int(time.time() * 1000) at the last position_id taken
  stamp_pair,       \* pair of the candle that took that position_id, "none" once the interval is over
  delivered,        \* the pairs whose candle of the current interval has been delivered
  ncandles,         \* closed candle events delivered so far
  pc,               \* per process: the db call it makes next
  candle,           \* per process: pair, close and number of the candle in hand
  loc,              \* per process: the locals of the running functions
  bot_log,          \* per process: db.log_event rows written for the current candle
  did,              \* per process: what the current candle's processing has done
  due,              \* per process: the settlements the current candle calls for
  expected_wallet,  \* the wallet under serial accounting of every debit and credit
  strategies,       \* strategy_manager.strategies: the registered names
  active_strategy_name, \* strategy_manager.active_strategy_name
  activated,        \* the last two names set_active_strategy activated, oldest first
  call,             \* the last call into the registry or POST /api/strategies, with its outcome
  candle_buffer,    \* per process: main.py's candle_buffer
  nevents,          \* candlestick events delivered so far, closed or not
  event,            \* the candlestick event delivered last
  window,           \* the candle window handed to the strategy functions
  calc,             \* the last call of a strategy function, with what it returned
  enabled_pairs,    \* table pair_config: the pairs with enabled = 1
  bot_processes,    \* bot_manager.bot_processes: per pair the process tracked, 0 = none
  spawned,          \* the processes subprocess.Popen has started, in pid order
  last_sync,        \* what the last sync_bots_with_config met and did
  rest_call         \* the running or last call of CoinDCXREST._post or _get

vars ==
  << engine, active_strategy, trading_mode, paper_wallet, paper_trades, trades,
     real_orders, tp_sl_orders, time_ms, stamp_pair, delivered, ncandles, pc,
     candle, loc,
     bot_log, did, due, expected_wallet, strategies, active_strategy_name,
     activated, call, candle_buffer, nevents, event, window, calc,
     enabled_pairs, bot_processes, spawned, last_sync, rest_call >>

NoCandle == [pair |-> "none", close |-> 0, n |-> 0]

NoCall ==
  [ op |-> "none", arg |-> "none", constructed |-> FALSE, ret |-> "none",
    by |-> "none", threshold |-> 0, signal |-> "none", confidence |-> 0,
    auto_execute |-> FALSE, logged |-> FALSE ]

\* No strategy function called yet.
NoCalc == [ op |-> "none", n |-> 0 ]

\* No sync_bots_with_config has run yet.
NoSync ==
  [ n |-> 0, read |-> FALSE, enabled |-> {}, stopped |-> {}, exited |-> {},
    failed |-> {} ]

\* No call of _post or _get has been made yet.
NoRestCall ==
  [ method |-> "none", secret |-> "none", max_retries |-> 0, attempt |-> 0,
    requests |-> 0, slept |-> 0, status |-> "idle", ret |-> "none", n |-> 0 ]

\* bot_manager.py not started, no REST call made.
ServiceIdle ==
  /\ enabled_pairs = {}
  /\ bot_processes = [pr \in Pairs |-> 0]
  /\ spawned = << >>
  /\ last_sync = NoSync
  /\ rest_call = NoRestCall

NoEvent ==
  [ proc |-> "none", pair |-> "none", timestamp |-> 0, high |-> 0, low |-> 0,
    close |-> 0, is_closed |-> FALSE ]

\* The candle dict that _update_candle builds from an event.
CandleOf(e) ==
  [ timestamp |-> e.timestamp, high |-> e.high, low |-> e.low,
    close |-> e.close, is_closed |-> e.is_closed ]

\* candles[-BUFFER_SIZE:] of a history of n closed candles.
Seeded(n) ==
  [ i \in 1..n |->
      [ timestamp |-> i, high |-> 1000, low |-> 1000, close |-> 1000,
        is_closed |-> TRUE ] ]

NoLocals ==
  [ mode |-> "none", high |-> 0, low |-> 0, open_trades |-> << >>,
    wallet_balance |-> 0,
    signal |-> "none", confidence |-> 0, quantity |-> 0, leverage |-> 0,
    tp_price |-> 0, sl_price |-> 0, position_id |-> 0, entry_fee |-> 0 ]

\* The processes that exist: bot_manager starts one main.py per pair;
\* main_multi_pair.py is a single process that receives every pair's candles.
Running(p) == engine = "main" \/ p = "A"

\* The pairs whose candles process p receives.
PairsOf(p) == IF engine = "main" THEN {p} ELSE Pairs

OpenRows(table) == SelectSeq(table, LAMBDA r : r.status = "open")

OpenRowsOf(table, pair) ==
  SelectSeq(table, LAMBDA r : r.status = "open" /\ r.pair = pair)

\* max_open_trades as _run_strategy reads it.
max_open_trades ==
  IF engine = "main" /\ active_strategy = "none"
  THEN DEFAULT_MAX_OPEN_TRADES
  ELSE CONFIG_max_open_trades

\* The rows _run_strategy counts against max_open_trades: main.py counts the
\* rows of its own pair, main_multi_pair.py the rows of every pair.
CountedRows(table, pair) ==
  IF engine = "main" THEN OpenRowsOf(table, pair) ELSE OpenRows(table)

Init ==
  /\ engine \in Engines
  /\ active_strategy \in
       (IF engine = "main" THEN Activations ELSE {"strategy"})
  /\ trading_mode \in {"PAPER", "REAL"}
  /\ paper_wallet \in InitialBalances
  /\ paper_trades \in SeedTables
  /\ \A pr \in Pairs : Len(CountedRows(paper_trades, pr)) <= max_open_trades
  /\ trades = << >>
  /\ real_orders = 0
  /\ tp_sl_orders = 0
  /\ time_ms = 0
  /\ stamp_pair = "none"
  /\ delivered = {}
  /\ ncandles = 0
  /\ pc = [p \in Procs |-> "idle"]
  /\ candle = [p \in Procs |-> NoCandle]
  /\ loc = [p \in Procs |-> NoLocals]
  /\ bot_log = [p \in Procs |-> << >>]
  /\ did = [p \in Procs |-> {}]
  /\ due = [p \in Procs |-> {}]
  /\ expected_wallet = paper_wallet
  /\ strategies =
       (IF engine = "multi" THEN {}
        ELSE IF active_strategy = "none" THEN {"simple_ema"}
        ELSE {"simple_ema", "enhanced_v2"})
  /\ active_strategy_name = (IF engine = "multi" THEN "none" ELSE active_strategy)
  /\ activated = << "none", active_strategy_name >>
  /\ call = NoCall
  /\ candle_buffer = [p \in Procs |-> << >>]
  /\ nevents = 0
  /\ event = NoEvent
  /\ window = << >>
  /\ calc = NoCalc
  /\ ServiceIdle

\* ------------------------------------------------------ code decisions
\* _get_trading_mode: the stored mode, or "REAL" when db.get_trading_mode raises.
_get_trading_mode(ok) == IF ok THEN trading_mode ELSE "REAL"

hit_tp(side, high, low, tp) == IF side = "buy" THEN high >= tp ELSE low <= tp

hit_sl(side, high, low, sl) == IF side = "buy" THEN low <= sl ELSE high >= sl

\* Conservative: if both hit in same candle, take SL.
exit_price_of(hitsl, tp, sl) == IF hitsl THEN sl ELSE tp

no_exit_fee(exit_price, quantity) == 0

exit_fee_of(exit_price, quantity) == Fee(exit_price, quantity)

net_pnl_of(t, exit_price) ==
  _calc_pnl(t.side, t.entry_price, exit_price, t.quantity, t.leverage)
    - t.fee_paid - exit_fee_of(exit_price, t.quantity)

total_fee_of(t, exit_price) == t.fee_paid + exit_fee_of(exit_price, t.quantity)

\* db.close_paper_trade: UPDATE paper_trades SET ... WHERE position_id = ?
close_paper_trade(table, position_id, exit_price, pnl, fee_paid) ==
  [ i \in 1..Len(table) |->
      IF table[i].position_id = position_id
      THEN [ table[i] EXCEPT !.exit_price = exit_price, !.pnl = pnl,
                             !.fee_paid = fee_paid, !.status = "closed" ]
      ELSE table[i] ]

\* Bookkeeping of closed_in on the rows an UPDATE changed.
ClosedIn(before, after, n) ==
  [ i \in 1..Len(after) |->
      IF after[i] # before[i] THEN [after[i] EXCEPT !.closed_in = n]
      ELSE after[i] ]

\* The rows _check_paper_positions iterates.  main.py reads paper_trades;
\* main_multi_pair.py goes through _get_open_trades_for_pair, which reads the
\* trading mode once more and returns the rows of table trades unless it is PAPER.
open_trades_for_check(pair, ok) ==
  IF engine = "main" \/ _get_trading_mode(ok) = "PAPER"
  THEN OpenRowsOf(paper_trades, pair)
  ELSE OpenRowsOf(trades, pair)

\* The rows _run_strategy counts, by the mode it read.
open_trades_for_limit(mode, pair) ==
  IF mode = "PAPER" THEN CountedRows(paper_trades, pair)
  ELSE CountedRows(trades, pair)

over_limit(mode, pair) == Len(open_trades_for_limit(mode, pair)) > max_open_trades

at_limit(mode, pair) == Len(open_trades_for_limit(mode, pair)) >= max_open_trades

\* evaluate() of the active strategy: auto_execute of a found signal.
auto_execute_of(signal, confidence) ==
  /\ signal # "none"
  /\ CONFIG_auto_execute
  /\ confidence >= CONFIG_confidence_threshold

\* What evaluate() can return for some candle window: <<signal, confidence>>.
EvaluateResults ==
  IF active_strategy = "none" THEN { << "none", 0 >> }
  ELSE { << "none", 0 >> } \cup ({"LONG", "SHORT"} \X Confidences)

executes_any(signal, confidence) == signal # "none"

\* _run_strategy goes on to execute the signal.
executes(signal, confidence) ==
  IF engine = "main"
  THEN signal # "none" /\ auto_execute_of(signal, confidence)
  ELSE signal # "none" /\ ~(confidence < CONFIDENCE_THRESHOLD)

\* side of the order: main.py compares the signal with "LONG",
\* main_multi_pair.py with "BUY".
side_of(signal) ==
  IF engine = "main"
  THEN (IF signal = "LONG" THEN "buy" ELSE "sell")
  ELSE (IF signal = "BUY" THEN "buy" ELSE "sell")

wallet_empty(wallet_balance) == wallet_balance <= 0

never_insufficient(entry_fee, wallet_balance) == FALSE

insufficient_for_fee(entry_fee, wallet_balance) == entry_fee > wallet_balance

\* int(time.time() * 1000) when a position id is taken for a candle of `pair`:
\* later than the id taken before, except that the candles of two different
\* pairs of one interval close at the same instant and may be handled within
\* one millisecond.
NextStamps(pair) ==
  IF stamp_pair \notin {"none", pair} THEN {time_ms, time_ms + 1}
  ELSE {time_ms + 1}

\* The settlements a closed candle of `pair` with range [low, high] calls for,
\* as << row, exit price >>: the pair's open rows whose take-profit or
\* stop-loss lies in the range (long: high >= tp or low <= sl; short: low <= tp
\* or high >= sl), at sl_price when the stop-loss is hit, else at tp_price.
Due(pair, high, low) ==
  { << i, IF (IF paper_trades[i].side = "buy"
              THEN low <= paper_trades[i].sl_price
              ELSE high >= paper_trades[i].sl_price)
          THEN paper_trades[i].sl_price
          ELSE paper_trades[i].tp_price >> :
      i \in { j \in DOMAIN paper_trades :
                /\ paper_trades[j].pair = pair
                /\ paper_trades[j].status = "open"
                /\ IF paper_trades[j].side = "buy"
                   THEN \/ high >= paper_trades[j].tp_price
                        \/ low <= paper_trades[j].sl_price
                   ELSE \/ low <= paper_trades[j].tp_price
                        \/ high >= paper_trades[j].sl_price } }

\* ------------------------------------------------------------- bookkeeping
Log(p, level, what) == bot_log' = [bot_log EXCEPT ![p] = Append(@, << level, what >>)]

Did(p, what) == did' = [did EXCEPT ![p] = @ \cup {what}]

Goto(p, where) == pc' = [pc EXCEPT ![p] = where]

\* _check_paper_positions returned: its locals are gone, _run_strategy is next.
Leave(p) ==
  /\ pc' = [pc EXCEPT ![p] = "strat_mode"]
  /\ loc' = [loc EXCEPT ![p] = NoLocals]

ReturnIntoSettlement(p) ==
  /\ pc' = [pc EXCEPT ![p] = "check_mode"]
  /\ loc' = [loc EXCEPT ![p] = NoLocals]

\* _update_candle is over (it returned, or raised into on_candlestick's
\* except clause): the locals are gone.
Return(p) ==
  /\ pc' = [pc EXCEPT ![p] = "done"]
  /\ loc' = [loc EXCEPT ![p] = NoLocals]

Propagates(p) ==
  /\ pc' = [pc EXCEPT ![p] = "terminated"]
  /\ loc' = [loc EXCEPT ![p] = NoLocals]

\* on_candlestick's except clause: the error is logged and the handler returns.
Caught(p) ==
  /\ pc' = [pc EXCEPT ![p] = "done"]
  /\ loc' = [loc EXCEPT ![p] = NoLocals]

db_vars == << trading_mode, paper_wallet, paper_trades, trades >>
registry_vars == << strategies, active_strategy_name, activated, call >>
buffer_vars == << candle_buffer, nevents, event >>

strategy_vars == << window, calc >>
manager_vars == << enabled_pairs, bot_processes, spawned, last_sync >>
service_vars == << manager_vars, rest_call >>
world_vars == << engine, active_strategy, real_orders, tp_sl_orders, ncandles >>
clock_vars == << time_ms, stamp_pair, delivered >>

\* ----------------------------------------------------------------- actions
\* _update_candle, if candle["is_closed"]: the calls of _check_paper_positions
\* and _run_strategy begin.  A second closed candle of a pair belongs to the
\* next interval.
ClosedCandle(p, pr, shape) ==
  /\ ncandles' = ncandles + 1
  /\ candle' = [candle EXCEPT ![p] =
       [pair |-> pr, close |-> shape[3], n |-> ncandles + 1]]
  /\ loc' = [loc EXCEPT ![p] =
       [NoLocals EXCEPT !.high = shape[1], !.low = shape[2]]]
  /\ due' = [due EXCEPT ![p] = Due(pr, shape[1], shape[2])]
  /\ delivered' = (IF pr \in delivered THEN {pr} ELSE delivered \cup {pr})
  /\ stamp_pair' = (IF pr \in delivered THEN "none" ELSE stamp_pair)
  /\ Goto(p, "check_mode")

\* on_candlestick -> _update_candle with a closed candle of pair pr.
OnCandlestick(p, pr, shape) ==
  /\ Running(p)
  /\ pc[p] = "idle"
  /\ ncandles < MaxCandles
  /\ pr \in PairsOf(p)
  /\ ClosedCandle(p, pr, shape)
  /\ UNCHANGED << registry_vars, buffer_vars, strategy_vars, service_vars >>
  /\ UNCHANGED << db_vars, engine, active_strategy, real_orders, tp_sl_orders,
                  time_ms, bot_log, did, expected_wallet >>

\* _check_paper_positions: if _get_trading_mode() != "PAPER": return
CheckMode(p, ok) ==
  /\ pc[p] = "check_mode"
  /\ IF _get_trading_mode(ok) # "PAPER"
     THEN Leave(p)
     ELSE Goto(p, "check_read") /\ UNCHANGED loc
  /\ UNCHANGED << registry_vars, buffer_vars, strategy_vars, service_vars >>
  /\ UNCHANGED << db_vars, world_vars, clock_vars, candle, due, bot_log, did,
                  expected_wallet >>

\* _check_paper_positions: open_trades = ...; if not open_trades: return
CheckRead(p, ok) ==
  /\ pc[p] = "check_read"
  /\ LET rows == open_trades_for_check(candle[p].pair, ok)
     IN  IF rows = << >>
         THEN Leave(p)
         ELSE /\ Goto(p, "check_wallet")
              /\ loc' = [loc EXCEPT ![p].open_trades = rows]
  /\ UNCHANGED << registry_vars, buffer_vars, strategy_vars, service_vars >>
  /\ UNCHANGED << db_vars, world_vars, clock_vars, candle, due, bot_log, did,
                  expected_wallet >>

\* _check_paper_positions: wallet_balance = db.get_paper_wallet_balance() or 0.0
CheckWallet(p) ==
  /\ pc[p] = "check_wallet"
  /\ loc' = [loc EXCEPT ![p].wallet_balance = paper_wallet]
  /\ Goto(p, "check_loop")
  /\ UNCHANGED << registry_vars, buffer_vars, strategy_vars, service_vars >>
  /\ UNCHANGED << db_vars, world_vars, clock_vars, candle, due, bot_log, did,
                  expected_wallet >>

\* One iteration of the loop over open_trades.  In main.py the first hit
\* raises NameError (exit_fee is not defined), which on_candlestick catches.
SettleNext(p) ==
  /\ pc[p] = "check_loop"
  /\ loc[p].open_trades # << >>
  /\ LET t == Head(loc[p].open_trades)
         c == candle[p]
         tp == hit_tp(t.side, loc[p].high, loc[p].low, t.tp_price)
         sl == hit_sl(t.side, loc[p].high, loc[p].low, t.sl_price)
         exit_price == exit_price_of(sl, t.tp_price, t.sl_price)
         net_pnl == net_pnl_of(t, exit_price)
     IN  IF ~tp /\ ~sl
         THEN /\ loc' = [loc EXCEPT ![p].open_trades = Tail(@)]
              /\ UNCHANGED << pc, paper_trades, bot_log, did, expected_wallet >>
         ELSE IF engine = "main"
         THEN /\ Caught(p)
              /\ Did(p, "settle_raised")
              /\ UNCHANGED << paper_trades, bot_log, expected_wallet >>
         ELSE /\ paper_trades' =
                   ClosedIn(paper_trades,
                            close_paper_trade(paper_trades, t.position_id,
                                              exit_price, net_pnl,
                                              total_fee_of(t, exit_price)),
                            c.n)
              /\ loc' = [loc EXCEPT ![p].open_trades = Tail(@),
                                    ![p].wallet_balance = @ + net_pnl]
              /\ expected_wallet' = expected_wallet + net_pnl
              /\ Log(p, "INFO", "closed")
              /\ Did(p, "closed")
              /\ UNCHANGED pc
  /\ UNCHANGED << registry_vars, buffer_vars, strategy_vars, service_vars >>
  /\ UNCHANGED << trading_mode, paper_wallet, trades, world_vars, clock_vars,
                  candle, due >>

\* _check_paper_positions: db.set_paper_wallet_balance(wallet_balance)
SettleDone(p) ==
  /\ pc[p] = "check_loop"
  /\ loc[p].open_trades = << >>
  /\ paper_wallet' = loc[p].wallet_balance
  /\ Leave(p)
  /\ UNCHANGED << registry_vars, buffer_vars, strategy_vars, service_vars >>
  /\ UNCHANGED << trading_mode, paper_trades, trades, world_vars, clock_vars,
                  candle, due, bot_log, did, expected_wallet >>

\* _run_strategy: mode = _get_trading_mode()
StratMode(p, ok) ==
  /\ pc[p] = "strat_mode"
  /\ loc' = [loc EXCEPT ![p] = [NoLocals EXCEPT !.mode = _get_trading_mode(ok)]]
  /\ Goto(p, "strat_read")
  /\ UNCHANGED << registry_vars, buffer_vars, strategy_vars, service_vars >>
  /\ UNCHANGED << db_vars, world_vars, clock_vars, candle, due, bot_log, did,
                  expected_wallet >>

\* _run_strategy: the max-open-trades check, evaluate(), the execution gate.
StratRead(p, result) ==
  /\ pc[p] = "strat_read"
  /\ result \in EvaluateResults
  /\ LET signal == result[1]
         confidence == result[2]
     IN  IF at_limit(loc[p].mode, candle[p].pair)
         THEN Return(p) /\ Did(p, "at_limit") /\ UNCHANGED bot_log
         ELSE IF signal = "none"
         THEN Return(p) /\ Did(p, "no_signal") /\ UNCHANGED bot_log
         ELSE IF ~executes(signal, confidence)
         THEN /\ Return(p)
              /\ Did(p, "gate_rejected")
              /\ IF engine = "main" THEN Log(p, "INFO", "signal")
                 ELSE UNCHANGED bot_log
         ELSE /\ loc' = [loc EXCEPT ![p].signal = signal,
                                    ![p].confidence = confidence]
              /\ Goto(p, IF loc[p].mode = "PAPER" THEN "paper_wallet"
                         ELSE "real_order")
              /\ Log(p, "INFO", "signal")
              /\ UNCHANGED did
  /\ UNCHANGED << registry_vars, buffer_vars, strategy_vars, service_vars >>
  /\ UNCHANGED << db_vars, world_vars, clock_vars, candle, due, expected_wallet >>

\* _run_paper_trade up to the fee check: sizing, the wallet read, TP/SL,
\* the position id and the entry fee.
PaperWallet(p, rate, stamp) ==
  /\ pc[p] = "paper_wallet"
  /\ rate \in Rates
  /\ stamp \in NextStamps(candle[p].pair)
  /\ LET sizing == _resolve_trade_sizing(candle[p].close, rate)
         wallet_balance == paper_wallet
         tpsl == calculate_tp_sl(candle[p].close, loc[p].signal)
         entry_fee == Fee(candle[p].close, sizing[1])
     IN  IF wallet_empty(wallet_balance)
         THEN /\ Return(p)
              /\ Log(p, "WARNING", "wallet_empty")
              /\ Did(p, "rejected_empty")
              /\ UNCHANGED clock_vars
         ELSE IF insufficient_for_fee(entry_fee, wallet_balance)
         THEN /\ Return(p)
              /\ Log(p, "WARNING", "wallet_insufficient")
              /\ Did(p, "rejected_fee")
              /\ UNCHANGED clock_vars
         ELSE /\ loc' = [loc EXCEPT ![p].wallet_balance = wallet_balance,
                                    ![p].quantity = sizing[1],
                                    ![p].leverage = sizing[2],
                                    ![p].tp_price = tpsl[1],
                                    ![p].sl_price = tpsl[2],
                                    ![p].position_id = stamp,
                                    ![p].entry_fee = entry_fee]
              /\ time_ms' = stamp
              /\ stamp_pair' = candle[p].pair
              /\ UNCHANGED delivered
              /\ Goto(p, "paper_debit")
              /\ UNCHANGED << bot_log, did >>
  /\ UNCHANGED << registry_vars, buffer_vars, strategy_vars, service_vars >>
  /\ UNCHANGED << db_vars, world_vars, candle, due, expected_wallet >>

\* _run_paper_trade: db.set_paper_wallet_balance(wallet_balance - entry_fee)
PaperDebit(p) ==
  /\ pc[p] = "paper_debit"
  /\ paper_wallet' = loc[p].wallet_balance - loc[p].entry_fee
  /\ expected_wallet' = expected_wallet - loc[p].entry_fee
  /\ Goto(p, "paper_insert")
  /\ Did(p, "debit")
  /\ UNCHANGED << registry_vars, buffer_vars, strategy_vars, service_vars >>
  /\ UNCHANGED << trading_mode, paper_trades, trades, world_vars, clock_vars,
                  candle, due, loc, bot_log >>

\* _run_paper_trade: db.insert_paper_trade(...).  main.py passes atr,
\* position_size and trailing_stop, which db.insert_paper_trade does not take:
\* TypeError, caught by _run_strategy, which logs "Order execution failed".
PaperInsert(p) ==
  /\ pc[p] = "paper_insert"
  /\ IF engine = "main"
     THEN /\ Log(p, "ERROR", "order_failed")
          /\ Did(p, "insert_raised")
          /\ UNCHANGED paper_trades
     ELSE /\ paper_trades' = Append(paper_trades,
               Row(candle[p].pair, side_of(loc[p].signal), candle[p].close,
                   loc[p].quantity, loc[p].leverage, loc[p].tp_price,
                   loc[p].sl_price, loc[p].entry_fee, loc[p].position_id,
                   candle[p].n))
          /\ Log(p, "INFO", "entry")
          /\ Did(p, "insert")
  /\ Return(p)
  /\ UNCHANGED << registry_vars, buffer_vars, strategy_vars, service_vars >>
  /\ UNCHANGED << trading_mode, paper_wallet, trades, world_vars, clock_vars,
                  candle, due, expected_wallet >>

\* _run_strategy, real mode: sizing, rest.place_order, rest.get_positions,
\* TP/SL, rest.place_tp_sl when the position was found, db.insert_trade.
\* main.py passes atr, position_size and trailing_stop, which db.insert_trade
\* does not take: TypeError, caught by _run_strategy.
RealTrade(p, rate, found) ==
  /\ pc[p] = "real_order"
  /\ rate \in Rates
  /\ LET sizing == _resolve_trade_sizing(candle[p].close, rate)
         tpsl == calculate_tp_sl(candle[p].close, loc[p].signal)
         position_id == IF found THEN -100 - candle[p].n ELSE -100
     IN  /\ real_orders' = real_orders + 1
         /\ tp_sl_orders' = IF found THEN tp_sl_orders + 1 ELSE tp_sl_orders
         /\ IF engine = "main"
            THEN /\ Log(p, "ERROR", "order_failed")
                 /\ Did(p, "real_insert_raised")
                 /\ UNCHANGED trades
            ELSE /\ trades' = Append(trades,
                      Row(candle[p].pair, side_of(loc[p].signal), candle[p].close,
                          sizing[1], sizing[2], tpsl[1], tpsl[2], 0,
                          position_id, candle[p].n))
                 /\ Did(p, "real_insert")
                 /\ UNCHANGED bot_log
  /\ Return(p)
  /\ UNCHANGED << registry_vars, buffer_vars, strategy_vars, service_vars >>
  /\ UNCHANGED << trading_mode, paper_wallet, paper_trades, engine,
                  active_strategy, ncandles, clock_vars, candle, due,
                  expected_wallet >>

\* on_candlestick returns to the socket client, which waits for the next event.
OnCandlestickReturn(p) ==
  /\ pc[p] = "done"
  /\ pc' = [pc EXCEPT ![p] = "idle"]
  /\ candle' = [candle EXCEPT ![p] = NoCandle]
  /\ bot_log' = [bot_log EXCEPT ![p] = << >>]
  /\ did' = [did EXCEPT ![p] = {}]
  /\ due' = [due EXCEPT ![p] = {}]
  /\ UNCHANGED << registry_vars, buffer_vars, strategy_vars, service_vars >>
  /\ UNCHANGED << db_vars, world_vars, clock_vars, loc, expected_wallet >>

Next ==
  \E p \in Procs :
    \/ \E pr \in Pairs, shape \in CandleShapes : OnCandlestick(p, pr, shape)
    \/ \E ok \in BOOLEAN : CheckMode(p, ok)
    \/ \E ok \in BOOLEAN : CheckRead(p, ok)
    \/ CheckWallet(p)
    \/ SettleNext(p)
    \/ SettleDone(p)
    \/ \E ok \in BOOLEAN : StratMode(p, ok)
    \/ \E result \in EvaluateResults : StratRead(p, result)
    \/ \E rate \in Rates, stamp \in NextStamps(candle[p].pair) :
         PaperWallet(p, rate, stamp)
    \/ PaperDebit(p)
    \/ PaperInsert(p)
    \/ \E rate \in Rates, found \in BOOLEAN : RealTrade(p, rate, found)
    \/ OnCandlestickReturn(p)

Spec == Init /\ [][Next]_vars

\* --------------------------------------------------- the strategy registry
engine_vars ==
  << engine, trading_mode, paper_wallet, paper_trades, trades, real_orders,
     tp_sl_orders, time_ms, stamp_pair, delivered, ncandles, pc, candle, loc,
     bot_log, did, due, expected_wallet >>

\* main.py before its module initialisation, no candle delivered.
AtStart ==
  /\ engine = "main"
  /\ active_strategy = "none"
  /\ paper_wallet \in InitialBalances
  /\ paper_trades = << >>
  /\ trades = << >>
  /\ real_orders = 0
  /\ tp_sl_orders = 0
  /\ time_ms = 0
  /\ stamp_pair = "none"
  /\ delivered = {}
  /\ ncandles = 0
  /\ pc = [p \in Procs |-> "idle"]
  /\ candle = [p \in Procs |-> NoCandle]
  /\ loc = [p \in Procs |-> NoLocals]
  /\ bot_log = [p \in Procs |-> << >>]
  /\ did = [p \in Procs |-> {}]
  /\ due = [p \in Procs |-> {}]
  /\ expected_wallet = paper_wallet
  /\ active_strategy_name = "none"
  /\ activated = << "none", "none" >>
  /\ call = NoCall
  /\ nevents = 0
  /\ event = NoEvent
  /\ calc = NoCalc
  /\ ServiceIdle

InitRegistry ==
  /\ AtStart
  /\ window = << >>
  /\ trading_mode = "PAPER"
  /\ strategies \in Registries
  /\ candle_buffer = [p \in Procs |-> << >>]

\* CONFIG of a strategy class: SimpleEMAStrategy's own, else the defaults.
CONFIG_of(strategy) ==
  IF strategy = "simple_ema"
  THEN [ max_open_trades |-> SIMPLE_EMA_max_open_trades,
         confidence_threshold |-> SIMPLE_EMA_confidence_threshold ]
  ELSE [ max_open_trades |-> CONFIG_max_open_trades,
         confidence_threshold |-> CONFIG_confidence_threshold ]

\* set_active_strategy gets past the lookup and the constructor.
activates(strategy_name, constructed) ==
  strategy_name \in strategies /\ constructed

keep_first_instance(strategy_name, constructed) ==
  IF active_strategy # "none" THEN active_strategy
  ELSE IF activates(strategy_name, constructed) THEN strategy_name
  ELSE active_strategy

\* self.active_strategy after set_active_strategy: an instance of the class.
activated_instance(strategy_name, constructed) ==
  IF activates(strategy_name, constructed) THEN strategy_name
  ELSE active_strategy

name_before_construction(strategy_name, constructed) ==
  IF strategy_name \in strategies THEN strategy_name ELSE active_strategy_name

\* self.active_strategy_name after set_active_strategy.
activated_name(strategy_name, constructed) ==
  IF activates(strategy_name, constructed) THEN strategy_name
  ELSE active_strategy_name

\* StrategyManager.set_active_strategy: what it does to the registry.
set_active_strategy(strategy_name, constructed) ==
  /\ active_strategy' = activated_instance(strategy_name, constructed)
  /\ active_strategy_name' = activated_name(strategy_name, constructed)
  /\ activated' = (IF activates(strategy_name, constructed)
                   THEN << activated[2], strategy_name >>
                   ELSE activated)

\* main.py, module initialisation: set_active_strategy("enhanced_v2"), its
\* result unused; the engine goes on to seed the buffer and to subscribe.
MainInit(constructed) ==
  /\ call = NoCall
  /\ active_strategy = "none"
  /\ set_active_strategy("enhanced_v2", constructed)
  /\ call' = [NoCall EXCEPT !.op = "main_init", !.arg = "enhanced_v2",
                            !.constructed = constructed, !.ret = "started"]
  /\ UNCHANGED << engine_vars, strategies, buffer_vars, strategy_vars, service_vars >>

\* StrategyManager.set_active_strategy called by itself.
SetActiveStrategy(strategy_name, constructed) ==
  /\ set_active_strategy(strategy_name, constructed)
  /\ call' = [NoCall EXCEPT !.op = "set_active_strategy", !.arg = strategy_name,
                            !.constructed = constructed,
                            !.ret = IF activates(strategy_name, constructed)
                                    THEN "True" ELSE "False"]
  /\ UNCHANGED << engine_vars, strategies, buffer_vars, strategy_vars, service_vars >>

\* StrategyManager.evaluate on a window for which the strategy finds `signal`
\* with `confidence`, or raises.
Evaluate(raises, signal, confidence) ==
  /\ call' =
       IF active_strategy = "none"
       THEN [NoCall EXCEPT !.op = "evaluate", !.ret = "None"]
       ELSE IF raises
       THEN [NoCall EXCEPT !.op = "evaluate", !.ret = "None",
                           !.by = active_strategy]
       ELSE [NoCall EXCEPT
               !.op = "evaluate", !.ret = "result", !.by = active_strategy,
               !.threshold = CONFIG_of(active_strategy).confidence_threshold,
               !.signal = signal,
               !.confidence = (IF signal = "none" THEN 0 ELSE confidence),
               !.auto_execute =
                  /\ signal # "none"
                  /\ CONFIG_auto_execute
                  /\ confidence
                       >= CONFIG_of(active_strategy).confidence_threshold]
  /\ UNCHANGED << engine_vars, active_strategy, strategies,
                  active_strategy_name, activated, buffer_vars, strategy_vars, service_vars >>

\* StrategyManager.calculate_tp_sl.
CalculateTpSl(raises) ==
  /\ call' =
       IF active_strategy = "none"
       THEN [NoCall EXCEPT !.op = "calculate_tp_sl", !.ret = "zeros"]
       ELSE IF raises
       THEN [NoCall EXCEPT !.op = "calculate_tp_sl", !.ret = "zeros",
                           !.by = active_strategy]
       ELSE [NoCall EXCEPT !.op = "calculate_tp_sl", !.ret = "tp_sl",
                           !.by = active_strategy]
  /\ UNCHANGED << engine_vars, active_strategy, strategies,
                  active_strategy_name, activated, buffer_vars, strategy_vars, service_vars >>

\* StrategyManager.get_config.
GetConfig ==
  /\ call' =
       IF active_strategy = "none"
       THEN [NoCall EXCEPT !.op = "get_config", !.ret = "None"]
       ELSE [NoCall EXCEPT
               !.op = "get_config", !.ret = "config", !.by = active_strategy,
               !.threshold = CONFIG_of(active_strategy).confidence_threshold]
  /\ UNCHANGED << engine_vars, active_strategy, strategies,
                  active_strategy_name, activated, buffer_vars, strategy_vars, service_vars >>

\* app.py, POST /api/strategies with the strategy manager loaded: 400 for an
\* empty name; else set_active_strategy, its result unused, then
\* db.log_event("Active strategy changed to ...") and the success response,
\* or the 400 response when db.log_event raises.
PostStrategies(strategy_name, constructed, log_ok) ==
  /\ IF strategy_name = ""
     THEN /\ call' = [NoCall EXCEPT !.op = "POST", !.arg = "", !.ret = "error"]
          /\ UNCHANGED << active_strategy, active_strategy_name, activated >>
     ELSE /\ set_active_strategy(strategy_name, constructed)
          /\ call' = [NoCall EXCEPT
                        !.op = "POST", !.arg = strategy_name,
                        !.constructed = constructed,
                        !.ret = IF log_ok THEN "success" ELSE "error",
                        !.logged = log_ok]
  /\ UNCHANGED << engine_vars, strategies, buffer_vars, strategy_vars, service_vars >>

NextRegistry ==
  \/ \E constructed \in BOOLEAN : MainInit(constructed)
  \/ \E strategy_name \in StrategyNames, constructed \in BOOLEAN :
       SetActiveStrategy(strategy_name, constructed)
  \/ \E raises \in BOOLEAN, signal \in {"none", "LONG", "SHORT"},
        confidence \in WindowConfidences :
       Evaluate(raises, signal, confidence)
  \/ \E raises \in BOOLEAN : CalculateTpSl(raises)
  \/ GetConfig
  \/ \E strategy_name \in StrategyNames \cup {""}, constructed \in BOOLEAN,
        log_ok \in BOOLEAN :
       PostStrategies(strategy_name, constructed, log_ok)

SpecRegistry == InitRegistry /\ [][NextRegistry]_vars

\* ------------------------------------------------------- the candle buffer
\* main.py as the repository has it (no strategy of the name it activates),
\* every process with the buffer that _seed_candles filled from the history
\* of the exchange.
InitBuffer ==
  /\ AtStart
  /\ window = << >>
  /\ trading_mode = "PAPER"
  /\ strategies = {"simple_ema"}
  /\ \E n \in SeedLengths : candle_buffer = [p \in Procs |-> Seeded(n)]

\* The timestamps of the events the feed sends next: the candle in progress
\* again, or the candle after it.
EventTimestamps(buffer) ==
  IF buffer = << >> THEN {1}
  ELSE { buffer[Len(buffer)].timestamp, buffer[Len(buffer)].timestamp + 1 }

overflows_when_full(n) == n >= BUFFER_SIZE

\* if len(candle_buffer) > BUFFER_SIZE
overflows(n) == n > BUFFER_SIZE

\* candle_buffer after _update_candle has stored candle c.
stored(buffer, c) ==
  IF buffer # << >> /\ buffer[Len(buffer)].timestamp = c.timestamp
  THEN [buffer EXCEPT ![Len(buffer)] = c]
  ELSE IF overflows(Len(buffer) + 1) THEN Append(Tail(buffer), c)
  ELSE Append(buffer, c)

triggers_always(is_closed) == TRUE

\* if candle["is_closed"]
triggers(is_closed) == is_closed

\* on_candlestick -> _update_candle with any candlestick event of pair pr.
UpdateCandle(p, pr, timestamp, is_closed, shape) ==
  /\ Running(p)
  /\ pc[p] = "idle"
  /\ nevents < MaxEvents
  /\ pr \in PairsOf(p)
  /\ timestamp \in EventTimestamps(candle_buffer[p])
  /\ nevents' = nevents + 1
  /\ event' = [ proc |-> p, pair |-> pr, timestamp |-> timestamp,
                high |-> shape[1], low |-> shape[2], close |-> shape[3],
                is_closed |-> is_closed ]
  /\ candle_buffer' = [candle_buffer EXCEPT ![p] = stored(@, CandleOf(event'))]
  /\ IF triggers(is_closed)
     THEN ClosedCandle(p, pr, shape)
     ELSE UNCHANGED << ncandles, candle, loc, due, delivered, stamp_pair, pc >>
  /\ UNCHANGED << registry_vars, strategy_vars, service_vars, db_vars, engine,
                  active_strategy, real_orders,
                  tp_sl_orders, time_ms, bot_log, did, expected_wallet >>

NextBuffer ==
  \E p \in Procs :
    \/ \E pr \in Pairs, is_closed \in BOOLEAN, shape \in BufferShapes,
          timestamp \in EventTimestamps(candle_buffer[p]) :
         UpdateCandle(p, pr, timestamp, is_closed, shape)
    \/ \E ok \in BOOLEAN : CheckMode(p, ok)
    \/ \E ok \in BOOLEAN : CheckRead(p, ok)
    \/ \E ok \in BOOLEAN : StratMode(p, ok)
    \/ \E result \in EvaluateResults : StratRead(p, result)
    \/ OnCandlestickReturn(p)

SpecBuffer == InitBuffer /\ [][NextBuffer]_vars

\* -------------------------------------------------- the strategy functions
\* A candle of a window; the prices and the volume are floats.
Candle(close, high, low, volume) ==
  [ close |-> close, high |-> high, low |-> low, volume |-> volume ]

\* n candles without a range, closing at c, c + step, c + 2 step, ...
RECURSIVE Ramp(_, _, _)
Ramp(n, c, step) ==
  IF n <= 0 THEN << >>
  ELSE << Candle(c, c, c, Float(1)) >> \o Ramp(n - 1, FAdd(c, step), step)

\* n candles without a range, closing at c, c + up, c + up - down, ...
RECURSIVE Saw(_, _, _, _)
Saw(n, c, up, down) ==
  IF n <= 0 THEN << >>
  ELSE << Candle(c, c, c, Float(1)) >> \o Saw(n - 1, FAdd(c, up), 0 - down, 0 - up)

\* n candles that close at c, with range c - d .. c + d and volume v.
RECURSIVE Run(_, _, _, _)
Run(n, c, d, v) ==
  IF n <= 0 THEN << >>
  ELSE << Candle(c, FAdd(c, d), FSub(c, d), v) >> \o Run(n - 1, c, d, v)

\* << f(lo), ..., f(hi) >>, built by halves.
RECURSIVE ListFrom(_, _, _)
ListFrom(f(_), lo, hi) ==
  IF lo > hi THEN << >>
  ELSE IF lo = hi THEN << f(lo) >>
  ELSE LET mid == (lo + hi) \div 2
       IN  ListFrom(f, lo, mid) \o ListFrom(f, mid + 1, hi)

\* [f(i) for i in range(n)], as a list.
ListOf(f(_), n) == ListFrom(f, 1, n)

\* The values a loop over values[lo..hi] gives its variable, which holds prev
\* before the loop: step(prev, values[lo]), step(of that, values[lo + 1]), ...
\* The first half is computed before the second half starts from its last
\* value.
RECURSIVE Loop(_, _, _, _, _)
Loop(step(_, _), prev, values, lo, hi) ==
  IF lo = hi THEN << step(prev, values[lo]) >>
  ELSE LET mid == (lo + hi) \div 2
       IN  With(Loop(step, prev, values, lo, mid), LAMBDA head :
             head \o Loop(step, head[Len(head)], values, mid + 1, hi))

\* The closes, as a function that counted its calls would give them.
ClosesOfCall(candles) ==
  ListOf(LAMBDA i : FAdd(candles[i].close, Float(calc.n)), Len(candles))

\* [c["close"] for c in candles]
Closes(candles) == ListOf(LAMBDA i : candles[i].close, Len(candles))

\* sum(values[:n]), from the left.
FSum(values, n) ==
  IF n = 0 THEN 0 ELSE LET sums == Loop(FAdd, 0, values, 1, n) IN sums[n]

\* values[-n:]
LastN(values, n) ==
  With(values, LAMBDA all :
    IF Len(all) <= n THEN all ELSE SubSeq(all, Len(all) - n + 1, Len(all)))

first_value(values, period) == values[1]

\* The seed of the series: sum(values[:period]) / period.
mean_of_first(values, period) == FDiv(FSum(values, period), Float(period))

\* The loop of _ema over values[period:], up to values[n].
ema_upto(values, period, n) ==
  With2(FDiv(Float(2), Float(period + 1)), mean_of_first(values, period),
        LAMBDA k, seed :
          IF n = period THEN << seed >>
          ELSE << seed >> \o
               Loop(LAMBDA prev, v : FAdd(FMul(v, k), FMul(prev, FSub(Float(1), k))),
                    seed, values, period + 1, n))

\* if len(values) < period
too_short(n, period) == n < period

_ema(values, period) ==
  IF too_short(Len(values), period) THEN << >>
  ELSE ema_upto(values, period, Len(values))

AllDeltas(closes, period) ==
  ListOf(LAMBDA i : FSub(closes[i + 1], closes[i]), Len(closes) - 1)

\* deltas[-period:] of _rsi.
Deltas(closes, period) == LastN(AllDeltas(closes, period), period)

\* if avg_loss == 0
no_loss(avg_loss) == avg_loss = 0

_rsi(closes, period) ==
  IF Len(closes) < period + 1 THEN Float(50)
  ELSE With(Deltas(closes, period), LAMBDA deltas :
         With2(ListOf(LAMBDA i : IF deltas[i] > 0 THEN deltas[i] ELSE 0,
                      Len(deltas)),
               ListOf(LAMBDA i : IF deltas[i] < 0 THEN 0 - deltas[i] ELSE 0,
                      Len(deltas)),
               LAMBDA gains, losses :
                 With2(FDiv(FSum(gains, Len(gains)), Float(period)),
                       FDiv(FSum(losses, Len(losses)), Float(period)),
                       LAMBDA avg_gain, avg_loss :
                         IF no_loss(avg_loss) THEN Float(100)
                         ELSE LET rs == FDiv(avg_gain, avg_loss)
                              IN  FRound(FSub(Float(100),
                                              FDiv(Float(100), FAdd(Float(1), rs))),
                                         2))))

\* ---- strategy.py
\* A value that may be None: the empty sequence, or the value alone.
None == << >>

Some(v) == << v >>

\* Truth of a float that may be None: neither None nor 0.
Truthy(o) == o # None /\ o[1] # 0

\* series[-1] if series else None
LastOf(series) == IF series = << >> THEN None ELSE Some(series[Len(series)])

\* series[-2] if len(series) >= 2 else None
PrevOf(series) ==
  IF Len(series) >= 2 THEN Some(series[Len(series) - 1]) ELSE None

\* The float literals of CONFIG.
CONFIG_atr_multiplier == Lit(15, 10)

CONFIG_min_volume_ratio == Lit(8, 10)

CONFIG_min_position_size == Lit(5, 10000)

CONFIG_max_position_size == Lit(1, 100)

true_range(candles, i) ==
  LET close_prev == IF i > 1 THEN candles[i - 1].close ELSE candles[i].close
  IN  With2(FSub(candles[i].high, close_prev), FSub(candles[i].low, close_prev),
            LAMBDA above, below :
              With(FSub(candles[i].high, candles[i].low), LAMBDA range :
                Max(range, Max(Abs(above), Abs(below)))))

_atr(candles, period) ==
  IF Len(candles) < period THEN 0
  ELSE With(LastN(ListOf(LAMBDA i : true_range(candles, i), Len(candles)), period),
            LAMBDA true_ranges :
              FRound(FDiv(FSum(true_ranges, Len(true_ranges)), Float(period)), 4))

_macd(closes) ==
  IF Len(closes) < CONFIG_macd_slow + CONFIG_macd_signal
  THEN [ macd |-> 0, signal |-> 0, histogram |-> 0 ]
  ELSE With2(_ema(closes, CONFIG_macd_fast), _ema(closes, CONFIG_macd_slow),
             LAMBDA ema_fast, ema_slow :
    With(ListOf(LAMBDA i : FSub(ema_fast[i], ema_slow[i]), Len(ema_slow)),
         LAMBDA macd_line :
    With(_ema(macd_line, CONFIG_macd_signal), LAMBDA signal_line :
      IF signal_line = << >>
      THEN [ macd |-> macd_line[Len(macd_line)], signal |-> 0, histogram |-> 0 ]
      ELSE LET current_macd == macd_line[Len(macd_line)]
               current_signal == signal_line[Len(signal_line)]
           IN  [ macd |-> FRound(current_macd, 4),
                 signal |-> FRound(current_signal, 4),
                 histogram |-> FRound(FSub(current_macd, current_signal), 4) ])))

_volume_ma(volumes, period) ==
  IF Len(volumes) < period THEN 0
  ELSE With(LastN(volumes, period), LAMBDA last :
         FDiv(FSum(last, Len(last)), Float(period)))

\* (current_volume / volume_ma) if volume_ma > 0 else 0
volume_ratio_of(current_volume, volume_ma) ==
  IF volume_ma > 0 THEN FDiv(current_volume, volume_ma) ELSE 0

compute_indicators(candles) ==
  With2(Closes(candles), ListOf(LAMBDA i : candles[i].volume, Len(candles)),
        LAMBDA closes, volumes :
  With2(_ema(closes, CONFIG_ema_fast), _ema(closes, CONFIG_ema_slow),
        LAMBDA ema_fast_series, ema_slow_series :
  With2(_macd(closes), _volume_ma(volumes, CONFIG_volume_ma_period),
        LAMBDA macd_data, volume_ma :
  LET current_volume == IF volumes # << >> THEN volumes[Len(volumes)] ELSE 0
  IN  [ ema_fast |-> LastOf(ema_fast_series),
        ema_slow |-> LastOf(ema_slow_series),
        ema_fast_prev |-> PrevOf(ema_fast_series),
        ema_slow_prev |-> PrevOf(ema_slow_series),
        rsi |-> _rsi(closes, CONFIG_rsi_period),
        atr |-> _atr(candles, CONFIG_atr_period),
        macd |-> macd_data.macd,
        macd_signal |-> macd_data.signal,
        macd_histogram |-> macd_data.histogram,
        volume |-> current_volume,
        volume_ma |-> volume_ma,
        volume_ratio |-> volume_ratio_of(current_volume, volume_ma),
        last_close |-> LastOf(closes) ])))

\* The part of calculate_confidence that the EMAs decide.
confidence_ema(ind, position_type) ==
  LET fresh ==
        /\ Truthy(ind.ema_fast_prev)
        /\ Truthy(ind.ema_slow_prev)
        /\ IF position_type = "LONG"
           THEN ind.ema_fast_prev[1] <= ind.ema_slow_prev[1]
           ELSE ind.ema_fast_prev[1] >= ind.ema_slow_prev[1]
      aligned ==
        IF position_type = "LONG"
        THEN ind.ema_fast[1] > ind.ema_slow[1]
        ELSE ind.ema_fast[1] < ind.ema_slow[1]
  IN  IF ~aligned THEN 0
      ELSE IF fresh THEN FAdd(Float(30), Float(5))
      ELSE Float(30)

confidence_macd(ind, position_type) ==
  LET beyond ==
        IF position_type = "LONG" THEN ind.macd > ind.macd_signal
        ELSE ind.macd < ind.macd_signal
      histogram ==
        IF position_type = "LONG" THEN ind.macd_histogram > 0
        ELSE ind.macd_histogram < 0
  IN  IF beyond /\ histogram THEN Float(25)
      ELSE IF beyond THEN Lit(125, 10)
      ELSE 0

confidence_rsi(rsi, position_type) ==
  IF position_type = "LONG"
  THEN IF rsi < Float(CONFIG_rsi_oversold) THEN Float(20)
       ELSE IF rsi < Float(50)
       THEN FDiv(FMul(Float(20), FSub(Float(50), rsi)), Float(50))
       ELSE Max(0, FDiv(FMul(Float(10), FSub(Float(80), rsi)), Float(30)))
  ELSE IF rsi > Float(CONFIG_rsi_overbought) THEN Float(20)
       ELSE IF rsi > Float(50)
       THEN FDiv(FMul(Float(20), FSub(rsi, Float(50))), Float(50))
       ELSE Max(0, FDiv(FMul(Float(10), FSub(rsi, Float(20))), Float(30)))

confidence_volume(volume_ratio) ==
  IF volume_ratio >= Float(1) THEN Float(15)
  ELSE IF volume_ratio >= CONFIG_min_volume_ratio
  THEN FMul(Float(15), FDiv(volume_ratio, CONFIG_min_volume_ratio))
  ELSE 0

confidence_trend(ind) ==
  With(FSub(ind.ema_slow[1], ind.ema_fast[1]), LAMBDA difference :
    LET ema_separation == Abs(difference)
    IN  IF ema_separation > 0 /\ Truthy(ind.last_close)
        THEN With(FDiv(ema_separation, FMul(ind.last_close[1], Lit(2, 100))),
                  LAMBDA share : FMul(Float(10), Min(Float(1), share)))
        ELSE 0)

\* if not ind.get("ema_fast") or not ind.get("ema_slow")
ema_missing(ind) == ~Truthy(ind.ema_fast) \/ ~Truthy(ind.ema_slow)

calculate_confidence(ind, position_type) ==
  IF ema_missing(ind) THEN 0
  ELSE With(FAdd(FAdd(FAdd(FAdd(FAdd(0, confidence_ema(ind, position_type)),
                                confidence_macd(ind, position_type)),
                           confidence_rsi(ind.rsi, position_type)),
                      confidence_volume(ind.volume_ratio)),
                 confidence_trend(ind)),
            LAMBDA confidence : Min(Float(100), FRound(confidence, 1)))

\* What a call gives back: a value, or the exception it raises.
Returned(value) == [ raised |-> "none", value |-> value ]

Raises(exception) == [ raised |-> exception, value |-> 0 ]

position_size_of(entry_price, atr, rsi, position_type) ==
  With(FMul(FDiv(atr, entry_price), Float(100)), LAMBDA volatility_pct :
  LET base_size == Lit(CONFIG_quantity, 1000)
      vol_multiplier ==
        IF volatility_pct < Lit(5, 10) THEN Float(1)
        ELSE IF volatility_pct > Float(2) THEN Lit(5, 10)
        ELSE FSub(Float(1),
                  FMul(FDiv(FSub(volatility_pct, Lit(5, 10)), Lit(15, 10)),
                       Lit(5, 10)))
      rsi_multiplier ==
        IF position_type = "LONG"
        THEN IF rsi < Float(20) THEN Lit(11, 10)
             ELSE IF rsi > Float(85) THEN Lit(8, 10)
             ELSE Float(1)
        ELSE IF rsi > Float(80) THEN Lit(11, 10)
             ELSE IF rsi < Float(15) THEN Lit(8, 10)
             ELSE Float(1)
  IN  With(FMul(FMul(base_size, vol_multiplier), rsi_multiplier),
           LAMBDA position_size :
             FRound(Max(CONFIG_min_position_size,
                        Min(CONFIG_max_position_size, position_size)), 6)))

\* volatility_pct = (atr / entry_price) * 100 divides by the price as it comes.
calculate_position_size(entry_price, atr, rsi, position_type) ==
  IF ~CONFIG_volatility_adjusted THEN Returned(Lit(CONFIG_quantity, 1000))
  ELSE IF entry_price = 0 THEN Raises("ZeroDivisionError")
  ELSE Returned(position_size_of(entry_price, atr, rsi, position_type))

calculate_trailing_stop(entry_price, atr, position_type) ==
  IF position_type = "LONG"
  THEN FRound(FSub(entry_price, FMul(atr, CONFIG_atr_multiplier)), 4)
  ELSE FRound(FAdd(entry_price, FMul(atr, CONFIG_atr_multiplier)), 4)

\* The dict evaluate returns when it has no candidate before it looks at
\* the crossovers.
NoSignal ==
  [ raised |-> "none", signal |-> "none", confidence |-> 0,
    auto_execute |-> FALSE, atr |-> 0, position_size |-> 0,
    trailing_stop |-> 0,
    keys |-> { "signal", "confidence", "auto_execute", "atr", "position_size",
               "trailing_stop" } ]

crossed_up(ind) ==
  /\ ind.ema_fast_prev[1] <= ind.ema_slow_prev[1]
  /\ ind.ema_fast[1] > ind.ema_slow[1]

\* The fast EMA is above the slow one on the last candle: a crossed-down test
\* that compares the last candle the wrong way round and ignores the previous.
fast_above_slow(ind) == ind.ema_fast[1] > ind.ema_slow[1]

crossed_down(ind) ==
  /\ ind.ema_fast_prev[1] >= ind.ema_slow_prev[1]
  /\ ind.ema_fast[1] < ind.ema_slow[1]

\* None in (ind["ema_fast"], ind["ema_slow"], ind["ema_fast_prev"], ind["ema_slow_prev"])
none_in_emas(ind) ==
  None \in { ind.ema_fast, ind.ema_slow, ind.ema_fast_prev, ind.ema_slow_prev }

\* The candidate of evaluate: long first, short only if long gave nothing.
candidate(ind) ==
  LET volume_confirmed == ind.volume_ratio >= CONFIG_min_volume_ratio
  IN  IF crossed_up(ind) /\ ind.macd > ind.macd_signal /\ volume_confirmed
      THEN "LONG"
      ELSE IF crossed_down(ind) /\ ind.macd < ind.macd_signal /\ volume_confirmed
      THEN "SHORT"
      ELSE "none"

\* evaluate(candles, return_confidence=True), as the engines call it.
evaluate(candles) ==
  IF Len(candles) < Max(CONFIG_ema_slow, CONFIG_macd_slow) + 5 THEN NoSignal
  ELSE With(compute_indicators(candles), LAMBDA ind :
         IF none_in_emas(ind) THEN NoSignal
         ELSE With(candidate(ind), LAMBDA signal :
           IF signal = "none" THEN [ NoSignal EXCEPT !.atr = ind.atr ]
           ELSE With2(calculate_confidence(ind, signal),
                      calculate_position_size(ind.last_close[1], ind.atr, ind.rsi,
                                              signal),
                      LAMBDA confidence, position_size :
                  IF position_size.raised # "none"
                  THEN [ NoSignal EXCEPT !.raised = position_size.raised ]
                  ELSE [ NoSignal EXCEPT
                           !.signal = signal,
                           !.confidence = confidence,
                           !.auto_execute =
                             CONFIG_auto_execute
                             /\ confidence >= Float(CONFIG_confidence_threshold),
                           !.atr = ind.atr,
                           !.position_size = position_size.value,
                           !.trailing_stop =
                             calculate_trailing_stop(ind.last_close[1], ind.atr,
                                                     signal) ])))

\* ---- strategies/simple_ema.py
SimpleEMA_compute_indicators(candles) ==
  With(Closes(candles), LAMBDA closes :
  With2(_ema(closes, CONFIG_ema_fast), _ema(closes, CONFIG_ema_slow),
        LAMBDA ema_fast_series, ema_slow_series :
      [ ema_fast |-> LastOf(ema_fast_series),
        ema_slow |-> LastOf(ema_slow_series),
        ema_fast_prev |-> PrevOf(ema_fast_series),
        ema_slow_prev |-> PrevOf(ema_slow_series),
        rsi |-> _rsi(closes, CONFIG_rsi_period),
        last_close |-> LastOf(closes) ]))

SimpleEMA_confidence_rsi(rsi, position_type) ==
  IF position_type = "LONG"
  THEN IF rsi < Float(SIMPLE_EMA_rsi_oversold) THEN Float(40)
       ELSE IF rsi < Float(SIMPLE_EMA_rsi_overbought)
       THEN FDiv(FMul(Float(40), FSub(Float(SIMPLE_EMA_rsi_overbought), rsi)),
                 Float(SIMPLE_EMA_rsi_overbought))
       ELSE 0
  ELSE IF rsi > Float(SIMPLE_EMA_rsi_overbought) THEN Float(40)
       ELSE IF rsi > Float(SIMPLE_EMA_rsi_oversold)
       THEN FDiv(FMul(Float(40), FSub(rsi, Float(SIMPLE_EMA_rsi_oversold))),
                 Float(100 - SIMPLE_EMA_rsi_oversold))
       ELSE 0

SimpleEMA_confidence_ema(ind, position_type) ==
  LET fresh ==
        /\ Truthy(ind.ema_fast_prev)
        /\ Truthy(ind.ema_slow_prev)
        /\ IF position_type = "LONG"
           THEN ind.ema_fast_prev[1] <= ind.ema_slow_prev[1]
           ELSE ind.ema_fast_prev[1] >= ind.ema_slow_prev[1]
      aligned ==
        IF position_type = "LONG"
        THEN ind.ema_fast[1] > ind.ema_slow[1]
        ELSE ind.ema_fast[1] < ind.ema_slow[1]
  IN  IF ~aligned THEN 0
      ELSE IF fresh THEN FAdd(Float(60), Float(20))
      ELSE Float(60)

SimpleEMA_calculate_confidence(ind, position_type) ==
  IF ema_missing(ind) THEN 0
  ELSE Min(Float(100),
           FRound(FAdd(FAdd(0, SimpleEMA_confidence_ema(ind, position_type)),
                       SimpleEMA_confidence_rsi(ind.rsi, position_type)), 1))

\* The dict SimpleEMAStrategy.evaluate returns when it has no candidate.
SimpleEMA_NoSignal ==
  [ raised |-> "none", signal |-> "none", confidence |-> 0,
    auto_execute |-> FALSE, atr |-> 0, position_size |-> 0,
    trailing_stop |-> 0, keys |-> { "signal", "confidence", "auto_execute" } ]

SimpleEMA_candidate(ind) ==
  IF crossed_up(ind) /\ ind.rsi < Float(SIMPLE_EMA_rsi_overbought) THEN "LONG"
  ELSE IF crossed_down(ind) /\ ind.rsi > Float(SIMPLE_EMA_rsi_oversold) THEN "SHORT"
  ELSE "none"

\* SimpleEMAStrategy.evaluate(candles, return_confidence=True).
SimpleEMA_evaluate(candles) ==
  IF Len(candles) < CONFIG_ema_slow + 5 THEN SimpleEMA_NoSignal
  ELSE With(SimpleEMA_compute_indicators(candles), LAMBDA ind :
         IF none_in_emas(ind) THEN SimpleEMA_NoSignal
         ELSE With(SimpleEMA_candidate(ind), LAMBDA signal :
           IF signal = "none" THEN SimpleEMA_NoSignal
           ELSE With(SimpleEMA_calculate_confidence(ind, signal), LAMBDA confidence :
                  [ SimpleEMA_NoSignal EXCEPT
                      !.signal = signal,
                      !.confidence = confidence,
                      !.auto_execute =
                        CONFIG_auto_execute
                        /\ confidence >= Float(SIMPLE_EMA_confidence_threshold) ])))

\* Prices the windows are made of: two that sums and products keep exact,
\* and two that they round.
Levels == { Float(100), Float(64), Lit(671, 10), Lit(33, 10) }

\* Lengths below and above the periods of the indicators.
RunLengths == { 8, 15, 22 }

\* Flat windows.
FlatWindows == { Run(n, c, 0, Float(1)) : n \in RunLengths, c \in Levels }

\* Rising, falling and alternating windows, and a rise followed by a fall
\* that is longer than the RSI period.
MovingWindows ==
  { Ramp(n, Float(64), step) : n \in RunLengths, step \in { Float(1), 0 - Float(1) } }
  \cup { Saw(22, Float(64), Float(2), Float(1)),
         Ramp(10, Float(64), Float(1)) \o Ramp(16, Float(74), 0 - Float(1)),
         Ramp(10, Float(74), 0 - Float(1)) \o Ramp(16, Float(64), Float(1)) }

\* Three levels one after the other.
Steps(n1, a, n2, b, n3, c) ==
  Run(n1, a, 0, Float(1)) \o Run(n2, b, 0, Float(1)) \o Run(n3, c, 0, Float(1))

\* Windows that end in a crossover of the EMAs, upwards or downwards, or in
\* no crossover; a window of exactly CONFIG_ema_slow candles; and a window
\* that ends in a crossover at a last close of 0.
StepWindows ==
  { Steps(30, Float(64), 1, 0, 7, Float(64)),
    Steps(30, Float(80), 3, Float(100), 2, Float(64)),
    Steps(30, Float(64), 8, Float(70), 1, Float(64)),
    Steps(20, Lit(671, 10), 4, Float(70), 2, Float(64)),
    Steps(12, Float(64), 8, Float(70), 1, Float(80)),
    Steps(30, Float(80), 3, Float(200), 2, 0) }

\* Windows with a range, with and without volume.
RangeWindows ==
  { Run(n, Float(64), Float(1), v) : n \in { 14, 36 }, v \in { 0, Float(1) } }

Windows == FlatWindows \cup MovingWindows \cup StepWindows \cup RangeWindows

\* The periods _ema is called with.
EmaPeriods == { CONFIG_ema_fast, CONFIG_ema_slow }

\* The entry prices _resolve_trade_sizing is called with.
SizingPrices == { 0, 1000, 1030 }

InitStrategy ==
  /\ AtStart
  /\ trading_mode = "PAPER"
  /\ strategies = {"simple_ema"}
  /\ candle_buffer = [p \in Procs |-> << >>]
  /\ window \in Windows

\* A strategy function is called on the window and returns; repeated: the
\* call before it was the same function with the same argument.
Called(op, arg, value) ==
  /\ calc.n < MaxCalls
  /\ calc' = [ op |-> op, n |-> calc.n + 1, arg |-> arg, value |-> value,
               repeated |-> (calc.op = op /\ calc.arg = arg) ]
  /\ UNCHANGED window
  /\ UNCHANGED << engine_vars, active_strategy, registry_vars, buffer_vars,
                  service_vars >>

CallEma(period) ==
  \E closes \in { Closes(window) } : Called("_ema", period, _ema(closes, period))

CallRsi(period) ==
  \E closes \in { Closes(window) } : Called("_rsi", period, _rsi(closes, period))

CallComputeIndicators ==
  Called("compute_indicators", "strategy", compute_indicators(window))

\* calculate_confidence on the indicators of the window, as evaluate calls it
\* and as a caller with a direction of its own calls it.
CallCalculateConfidence(position_type) ==
  \E ind \in { compute_indicators(window) } :
    Called("calculate_confidence", position_type,
           calculate_confidence(ind, position_type))

CallSimpleEMAConfidence(position_type) ==
  \E ind \in { SimpleEMA_compute_indicators(window) } :
    Called("SimpleEMA.calculate_confidence", position_type,
           SimpleEMA_calculate_confidence(ind, position_type))

\* calculate_position_size at the last close of the window.
CallCalculatePositionSize(position_type) ==
  \E ind \in { compute_indicators(window) } :
    Called("calculate_position_size", position_type,
           calculate_position_size(ind.last_close[1], ind.atr, ind.rsi,
                                   position_type))

CallResolveTradeSizing(current_price, rate) ==
  Called("_resolve_trade_sizing", << current_price, rate >>,
         _resolve_trade_sizing(current_price, rate))

CallEvaluate == Called("evaluate", "strategy", evaluate(window))

CallSimpleEMAEvaluate ==
  Called("SimpleEMA.evaluate", "simple_ema", SimpleEMA_evaluate(window))

NextStrategy ==
  \/ \E period \in EmaPeriods : CallEma(period)
  \/ CallRsi(CONFIG_rsi_period)
  \/ CallComputeIndicators
  \/ \E position_type \in {"LONG", "SHORT"} :
       \/ CallCalculateConfidence(position_type)
       \/ CallSimpleEMAConfidence(position_type)
       \/ CallCalculatePositionSize(position_type)
  \/ \E current_price \in SizingPrices, rate \in Rates :
       CallResolveTradeSizing(current_price, rate)
  \/ CallEvaluate
  \/ CallSimpleEMAEvaluate

SpecStrategy == InitStrategy /\ [][NextStrategy]_vars

\* ------------------------------------------------------------------ claims
CheckPcs == {"check_mode", "check_read", "check_wallet", "check_loop"}

PaperPcs == {"paper_wallet", "paper_debit", "paper_insert"}

\* Process p takes the step (no other process touches p's locals or position).
StepOf(p) == loc'[p] # loc[p] \/ pc'[p] # pc[p]

\* Process p is about to test the head of its open_trades against its candle.
Testing(p) == pc[p] = "check_loop" /\ loc[p].open_trades # << >>

TpHit(t, c) == hit_tp(t.side, c.high, c.low, t.tp_price)

SlHit(t, c) == hit_sl(t.side, c.high, c.low, t.sl_price)

ExitFee(t, X) == X * t.quantity * TAKER_FEE_NUM

Gross(t, X) ==
  IF t.side = "buy"
  THEN (X - t.entry_price) * t.quantity * t.leverage * TAKER_FEE_DEN
  ELSE -((X - t.entry_price) * t.quantity * t.leverage * TAKER_FEE_DEN)

Events(log) == { log[i][2] : i \in DOMAIN log }

\* C1: when _check_paper_positions tests an open paper position against a
\* closed candle whose range satisfies both its take-profit and its stop-loss
\* condition, the position is closed with exit price sl_price.
C1_TieBreakClosesAtSL ==
  [][\A p \in Procs :
       (/\ Testing(p)
        /\ StepOf(p)
        /\ TpHit(Head(loc[p].open_trades), loc[p])
        /\ SlHit(Head(loc[p].open_trades), loc[p]))
       => \A i \in DOMAIN paper_trades :
            paper_trades[i] = Head(loc[p].open_trades)
            => /\ paper_trades'[i].status = "closed"
               /\ paper_trades'[i].exit_price = paper_trades[i].sl_price]_vars

\* C2: whenever no process is in the middle of a candle, the paper wallet
\* equals the initial balance minus every entry fee debited plus every net
\* amount credited, whatever the interleaving of the processes was.
C2_NoLostWalletUpdate ==
  (\A p \in Procs : pc[p] = "idle") => paper_wallet = expected_wallet

\* C3: while the stored trading mode is PAPER, no real order and no TP/SL
\* order has been placed and table trades has no row, also after failed reads
\* of the trading mode.
C3_PaperNeverTradesReal ==
  trading_mode = "PAPER"
  => real_orders = 0 /\ tp_sl_orders = 0 /\ trades = << >>

\* C4: _run_paper_trade goes on to the debit only with an entry fee that does
\* not exceed the wallet balance it read; when it rejects, the wallet and the
\* paper positions are unchanged and a WARNING event is written.
C4_InsufficientFeeRejected ==
  [][\A p \in Procs :
       (pc[p] = "paper_wallet" /\ StepOf(p))
       => /\ pc'[p] = "paper_debit" => loc'[p].entry_fee <= paper_wallet
          /\ pc'[p] # "paper_debit"
             => /\ paper_wallet' = paper_wallet
                /\ paper_trades' = paper_trades
                /\ Len(bot_log'[p]) = Len(bot_log[p]) + 1
                /\ bot_log'[p][Len(bot_log'[p])][1] = "WARNING"]_vars

\* A candle's processing ended in the rejection of an entry whose fee exceeded
\* a positive wallet balance.
C4_Rejected ==
  \E p \in Procs :
    /\ pc[p] = "done"
    /\ "rejected_fee" \in did[p]
    /\ "wallet_insufficient" \in Events(bot_log[p])
    /\ paper_wallet > 0

\* C5: with the stored mode PAPER, when the processing of a closed candle has
\* finished, every paper position of the candle's pair that was open before
\* the candle and whose TP or SL the candle's range hits is closed, at
\* sl_price when the stop-loss is hit and at tp_price otherwise.
C5_HitPositionsClosed ==
  \A p \in Procs :
    (pc[p] = "done" /\ trading_mode = "PAPER")
    => \A d \in due[p] :
         /\ paper_trades[d[1]].status = "closed"
         /\ paper_trades[d[1]].exit_price = d[2]

\* C6: when the processing of a closed candle has finished and it debited the
\* wallet for an entry fee, table paper_trades holds the open position that
\* this candle opened.
C6_DebitHasPosition ==
  \A p \in Procs :
    (pc[p] = "done" /\ "debit" \in did[p])
    => \E i \in DOMAIN paper_trades :
         /\ paper_trades[i].opened_in = candle[p].n
         /\ paper_trades[i].pair = candle[p].pair
         /\ paper_trades[i].status = "open"

C9_OpenWithinLimit ==
  /\ [](\A pr \in Pairs : Len(OpenRowsOf(paper_trades, pr)) <= max_open_trades)
  /\ [][\A p \in Procs :
          (/\ pc[p] = "strat_read"
           /\ StepOf(p)
           /\ loc[p].mode = "PAPER"
           /\ Len(OpenRowsOf(paper_trades, candle[p].pair)) >= max_open_trades)
          => /\ pc'[p] = "done"
             /\ bot_log' = bot_log
             /\ paper_wallet' = paper_wallet
             /\ paper_trades' = paper_trades]_vars

\* A strategy run in PAPER mode found the pair at the limit, which a position
\* opened by an earlier candle had filled.
C9_AtLimit ==
  \E p \in Procs :
    /\ pc[p] = "done"
    /\ "at_limit" \in did[p]
    /\ trading_mode = "PAPER"
    /\ Len(OpenRowsOf(paper_trades, candle[p].pair)) = max_open_trades
    /\ \E i \in DOMAIN paper_trades :
         paper_trades[i].status = "open" /\ paper_trades[i].opened_in >= 1

C11_ClosedIsTerminal ==
  [][/\ \A i \in DOMAIN paper_trades :
          paper_trades[i].status = "closed"
          => paper_trades'[i] = paper_trades[i]
     /\ \A i \in DOMAIN paper_trades :
          (paper_trades[i].status = "open" /\ paper_trades'[i].status = "closed")
          => \E p \in Procs :
               /\ Testing(p)
               /\ StepOf(p)
               /\ Head(loc[p].open_trades) = paper_trades[i]
               /\ loc'[p].wallet_balance
                    = loc[p].wallet_balance + paper_trades'[i].pnl]_vars

\* C12: a paper position opened by a candle never shares its position_id with
\* another open paper position.
C12_UniquePositionIds ==
  \A i, j \in DOMAIN paper_trades :
    (/\ i # j
     /\ paper_trades[i].status = "open"
     /\ paper_trades[j].status = "open"
     /\ paper_trades[i].opened_in >= 1)
    => paper_trades[i].position_id # paper_trades[j].position_id

StratPcs == {"strat_mode", "strat_read"}

Raised == {"settle_raised", "insert_raised", "real_insert_raised"}

\* C13: a candlestick event with is_closed false changes the buffer of the
\* process that receives it and nothing else: no settlement and no strategy
\* run is started, no position is opened or closed, the wallet is unchanged.
C13_OpenCandleOnlyBuffers ==
  [][(nevents' = nevents + 1 /\ ~event'.is_closed)
     => /\ UNCHANGED << pc, candle, loc, due, ncandles >>
        /\ UNCHANGED << paper_trades, paper_wallet, trades, real_orders,
                        tp_sl_orders, bot_log >>
        /\ \A q \in Procs \ {event'.proc} :
             candle_buffer'[q] = candle_buffer[q]]_vars

\* The event delivered last had is_closed false and is the buffer's last
\* candle; its process waits for the next event.
C13_OpenCandleStored ==
  /\ nevents >= 1
  /\ ~event.is_closed
  /\ pc[event.proc] = "idle"
  /\ candle_buffer[event.proc] # << >>
  /\ candle_buffer[event.proc][Len(candle_buffer[event.proc])] = CandleOf(event)

\* C14: an exception raised while a candle event is processed stays inside
\* the handler: the process is never terminated, a candle whose processing
\* raised is at the handler's return, the handler at its return can return,
\* and a process that waits can take the next candle event.
C14_ExceptionsContained ==
  \A p \in Procs :
    /\ pc[p] # "terminated"
    /\ did[p] \cap Raised # {} => pc[p] = "done"
    /\ (Running(p) /\ pc[p] = "done") => ENABLED OnCandlestickReturn(p)
    /\ (Running(p) /\ pc[p] = "idle" /\ ncandles < MaxCandles)
       => ENABLED (\E pr \in PairsOf(p), shape \in CandleShapes :
                     OnCandlestick(p, pr, shape))

\* The processing of a candle raised, the handler is about to return, and
\* another candle can follow.
C14_RaisedAndReturning ==
  \E p \in Procs :
    /\ pc[p] = "done"
    /\ "settle_raised" \in did[p]
    /\ ncandles < MaxCandles

\* C15: with the stored mode PAPER, from the moment _run_strategy starts on a
\* closed candle, whatever happens in it, every paper position that was open
\* when the candle arrived and whose TP or SL the candle hits is closed.
C15_SettledWhateverEvaluationDoes ==
  \A p \in Procs :
    (/\ pc[p] \in StratPcs \cup PaperPcs \cup {"real_order", "done"}
     /\ trading_mode = "PAPER")
    => \A d \in due[p] : paper_trades[d[1]].status = "closed"

\* C16: a set_active_strategy call with a name that is not registered, or
\* whose construction fails, returns False and leaves active_strategy and
\* active_strategy_name as they were; with a registered name whose
\* construction succeeds it returns True and both refer to that strategy.
C16_SetActiveStrategy ==
  [][call'.op = "set_active_strategy"
     => /\ (call'.arg \notin strategies \/ ~call'.constructed)
           => /\ call'.ret = "False"
              /\ active_strategy' = active_strategy
              /\ active_strategy_name' = active_strategy_name
        /\ (call'.arg \in strategies /\ call'.constructed)
           => /\ call'.ret = "True"
              /\ active_strategy' = call'.arg
              /\ active_strategy_name' = call'.arg]_vars

\* set_active_strategy has refused a name while a strategy was active.
C16_Refused ==
  /\ call.op = "set_active_strategy"
  /\ call.ret = "False"
  /\ active_strategy_name # "none"
  /\ active_strategy = active_strategy_name
  /\ call.arg # active_strategy_name

\* C17: evaluate and calculate_tp_sl called on the registry while no strategy
\* is active fail with a NoActiveStrategy error; they return no value.
C17_NoActiveStrategyRaises ==
  (call.op \in {"evaluate", "calculate_tp_sl"} /\ call.by = "none")
  => call.ret = "NoActiveStrategy"

\* C18: POST /api/strategies with a name that is not registered answers with
\* an error and logs no "Active strategy changed" event, and main.py does not
\* start when the strategy it activates is not registered.
C18_UnknownStrategyReported ==
  /\ (call.op = "POST" /\ call.arg \notin strategies)
     => (call.ret = "error" /\ ~call.logged)
  /\ (call.op = "main_init" /\ call.arg \notin strategies)
     => call.ret # "started"

\* C19: once set_active_strategy has activated a strategy, every evaluate,
\* calculate_tp_sl and get_config call on the registry is served by the
\* strategy activated last, with its confidence threshold.
C19_ServedByLastActivated ==
  (call.op \in {"evaluate", "calculate_tp_sl", "get_config"}
   /\ activated[2] # "none")
  => /\ call.by = activated[2]
     /\ call.ret \in {"result", "config"}
        => call.threshold = CONFIG_of(activated[2]).confidence_threshold
     /\ call.ret = "result"
        => (call.auto_execute
            <=> /\ call.signal \in {"LONG", "SHORT"}
                /\ CONFIG_auto_execute
                /\ call.confidence
                     >= CONFIG_of(activated[2]).confidence_threshold)

\* After another strategy, simple_ema was activated, and evaluate does not
\* execute a signal whose confidence the other strategy's threshold admits.
C19_Switched ==
  /\ activated[1] \notin {"none", "simple_ema"}
  /\ activated[2] = "simple_ema"
  /\ call.op = "evaluate"
  /\ call.by = "simple_ema"
  /\ call.signal = "LONG"
  /\ ~call.auto_execute
  /\ call.confidence >= CONFIG_of(activated[1]).confidence_threshold

C21_ClosedCandleNeverChanged ==
  [][\A p \in Procs :
       LET b == candle_buffer[p]
           after == candle_buffer'[p]
       IN  (b # << >> /\ b[Len(b)].is_closed /\ after # b)
           => /\ Len(after) >= 2
              /\ after[Len(after) - 1] = b[Len(b)]
              /\ \A i \in 1..Len(b) :
                   b[i].timestamp # after[Len(after)].timestamp]_vars

\* The window is one price repeated.
Constant(values) == \A i \in 1..Len(values) : values[i] = values[1]

\* C28: _rsi returns a value between 0 and 100; it is 50.0 when there are
\* fewer than period + 1 closes, 100.0 when none of the last period deltas is
\* a loss, and 0.0 when every one of them is a loss.
C28_RsiRange ==
  calc.op = "_rsi"
  => LET closes == Closes(window)
         period == calc.arg
         last == LastN(ListOf(LAMBDA i : FSub(closes[i + 1], closes[i]),
                              Len(closes) - 1), period)
     IN  /\ calc.value >= 0
         /\ calc.value <= Float(100)
         /\ Len(closes) < period + 1 => calc.value = Float(50)
         /\ (Len(closes) >= period + 1 /\ \A i \in 1..Len(last) : last[i] >= 0)
            => calc.value = Float(100)
         /\ (Len(closes) >= period + 1 /\ \A i \in 1..Len(last) : last[i] < 0)
            => calc.value = 0

\* _rsi has returned 0.0 for a window that rose before its last period
\* deltas, all of them losses.
C28_AllLosses ==
  /\ calc.op = "_rsi"
  /\ calc.value = 0
  /\ Len(window) > calc.arg + 1
  /\ window[2].close > window[1].close

BudgetQuantity(quantity, current_price, rate) ==
  /\ quantity * (rate * current_price) <= CONFIG_inr_amount * CONFIG_leverage
  /\ CONFIG_inr_amount * CONFIG_leverage < (quantity + 1) * (rate * current_price)

\* C22, as stated: with a margin budget configured, _resolve_trade_sizing
\* returns the fixed base quantity, logs the fallback warning and reports no
\* rate when the conversion rate is None or not positive; when the rate is
\* available the quantity is (budget / rate) x leverage / entry price.
C22_FallbackWarned ==
  (calc.op = "_resolve_trade_sizing" /\ CONFIG_inr_amount > 0)
  => LET current_price == calc.arg[1]
         rate == calc.arg[2]
     IN  /\ rate <= 0
            => calc.value = << CONFIG_quantity, CONFIG_leverage, 0, TRUE >>
         /\ rate > 0
            => /\ BudgetQuantity(calc.value[1], current_price, rate)
               /\ calc.value[3] = rate

\* C23: a zero entry price, a zero ATR or a zero volume average that reaches
\* calculate_position_size, calculate_confidence or compute_indicators gives
\* a neutral or zero value there; no call raises a division fault, and none
\* reaches the caller of evaluate.
C23_NoDivisionFault ==
  /\ calc.op \in { "calculate_position_size", "evaluate" }
     => calc.value.raised = "none"
  /\ (calc.op = "compute_indicators" /\ calc.value.volume_ma = 0)
     => calc.value.volume_ratio = 0
  /\ calc.op = "calculate_confidence" => calc.value >= 0

\* What evaluate of either strategy saw of the crossovers in the window, and
\* what it returned.
OneDirection(ind, result) ==
  /\ ~(crossed_up(ind) /\ crossed_down(ind))
  /\ result.signal = "LONG" => (crossed_up(ind) /\ ~crossed_down(ind))
  /\ result.signal = "SHORT" => (crossed_down(ind) /\ ~crossed_up(ind))

C25_NoCandidateAllZero ==
  (/\ calc.op \in { "evaluate", "SimpleEMA.evaluate" }
   /\ calc.value.raised = "none"
   /\ calc.value.signal = "none")
  => /\ calc.value.keys = { "signal", "confidence", "auto_execute", "atr",
                            "position_size", "trailing_stop" }
     /\ calc.value.confidence = 0
     /\ ~calc.value.auto_execute
     /\ calc.value.atr = 0
     /\ calc.value.position_size = 0
     /\ calc.value.trailing_stop = 0

\* C26: calculate_confidence returns a value in [0, 100] for every indicator
\* snapshot and direction, and 0.0 whenever a required EMA value, the current
\* or the previous fast or slow one, is missing.
C26_ConfidenceZeroWhenEmaMissing ==
  /\ calc.op = "calculate_confidence"
     => /\ calc.value >= 0
        /\ calc.value <= Float(100)
        /\ \A ind \in { compute_indicators(window) } :
             none_in_emas(ind) => calc.value = 0
  /\ calc.op = "SimpleEMA.calculate_confidence"
     => /\ calc.value >= 0
        /\ calc.value <= Float(100)
        /\ \A ind \in { SimpleEMA_compute_indicators(window) } :
             none_in_emas(ind) => calc.value = 0

OpenedInRun(table) == { i \in DOMAIN table : table[i].opened_in > 0 }

\* The rows of paper_trades that have been closed.
ClosedRows(table) == { i \in DOMAIN table : table[i].status = "closed" }

\* The price PnL of a closed row, PnL of its entry and exit prices alone.
RawPnl(t) ==
  _calc_pnl(t.side, t.entry_price, t.exit_price, t.quantity, t.leverage)

\* The whole life of one paper position and nothing else: the engine is at
\* rest, it opened row i and no other, closed row i and no other, and no
\* write of the wallet was lost to an interleaved candle.
WholeLifeOf(i) ==
  /\ \A p \in Procs : pc[p] = "idle"
  /\ OpenedInRun(paper_trades) = {i}
  /\ ClosedRows(paper_trades) = {i}
  /\ paper_wallet = expected_wallet

\* C30: over the whole life of one paper position (opened, later closed, no
\* other wallet activity) the wallet's total change is the price PnL minus
\* the entry fee minus the exit fee; close_paper_trade stored the sum of both
\* fees in fee_paid, so the entry fee is counted in it once.
C30_EntryFeeDeductedOnce ==
  \A i \in DOMAIN paper_trades, balance \in InitialBalances :
    WholeLifeOf(i)
      => paper_wallet
           = balance + RawPnl(paper_trades[i]) - paper_trades[i].fee_paid

\* The side and the levels a position opened by this signal has to have.
AsSignalled(signal, r) ==
  /\ signal = "LONG"
       => (r.side = "buy" /\ r.sl_price < r.entry_price
                          /\ r.entry_price < r.tp_price)
  /\ signal = "SHORT"
       => (r.side = "sell" /\ r.tp_price < r.entry_price
                           /\ r.entry_price < r.sl_price)

\* The levels of a row are on the sides of its entry price that its side asks.
LevelsOnCorrectSides(r) ==
  /\ r.side = "buy" => (r.sl_price < r.entry_price /\ r.entry_price < r.tp_price)
  /\ r.side = "sell" => (r.tp_price < r.entry_price /\ r.entry_price < r.sl_price)

\* C31: every open paper position has the side of the signal that opened it
\* (LONG gives buy, SHORT gives sell) and its levels on the correct sides of
\* the entry: sl_price < entry_price < tp_price for a long, tp_price <
\* entry_price < sl_price for a short.
C31_SideAndLevelsMatchSignal ==
  /\ [](\A i \in DOMAIN paper_trades :
          paper_trades[i].status = "open"
            => LevelsOnCorrectSides(paper_trades[i]))
  /\ [][\A p \in Procs :
          (pc[p] = "paper_insert" /\ Len(paper_trades') = Len(paper_trades) + 1)
            => AsSignalled(loc[p].signal, paper_trades'[Len(paper_trades')])]_vars

\* The open rows of one pair in the table that belongs to the mode read.
OpenOfPair(mode, pair) ==
  IF mode = "PAPER" THEN OpenRowsOf(paper_trades, pair)
  ELSE OpenRowsOf(trades, pair)

\* C32: the max-open-trades limit is counted per instrument: a strategy run
\* for a pair whose own open positions are below the limit is not stopped by
\* the limit, whatever is open on other pairs; it goes on to evaluate.
C32_LimitCountedPerPair ==
  [][\A p \in Procs :
       (/\ pc[p] = "strat_read"
        /\ StepOf(p)
        /\ Len(OpenOfPair(loc[p].mode, candle[p].pair)) < max_open_trades)
       => "at_limit" \notin did'[p]]_vars

\* Row t has its take-profit or its stop-loss in the range of p's candle.
HitBy(t, p) == TpHit(t, loc[p]) \/ SlHit(t, loc[p])

\* A step of p's settlement loop leaves alone every row of another pair and
\* every open row whose take-profit and stop-loss are both not hit.
SettlementKeepsRows(p) ==
  (pc[p] = "check_loop" /\ StepOf(p))
    => \A i \in DOMAIN paper_trades :
         (\/ paper_trades[i].pair # candle[p].pair
          \/ (paper_trades[i].status = "open" /\ ~HitBy(paper_trades[i], p)))
           => paper_trades'[i] = paper_trades[i]

\* The end of a settlement that closed nothing leaves the wallet as it is.
SettlementKeepsWallet(p) ==
  (pc[p] = "check_loop" /\ pc'[p] = "strat_mode" /\ "closed" \notin did[p])
    => paper_wallet' = paper_wallet

\* C33: settlement on a closed candle of a pair leaves unchanged every open
\* position whose TP and SL are both not hit and every position of another
\* pair; if no position of the pair is hit, the wallet balance after the
\* settlement equals the balance before it.
C33_SettlementFrame ==
  [][\A p \in Procs : SettlementKeepsRows(p) /\ SettlementKeepsWallet(p)]_vars

\* ------------------------------------------- a closed candle delivered again
\* The closed candles the feed can deliver to process p, as the event that
\* carries one: the candle after the n candles of the seeded history.
ClosedEvents(p, n) ==
  { [ proc |-> p, pair |-> pr, timestamp |-> n + 1, high |-> shape[1],
      low |-> shape[2], close |-> shape[3], is_closed |-> TRUE ] :
      pr \in PairsOf(p), shape \in BufferShapes }

\* What evaluate() has returned for a window: the record of that call.
Evaluated(result) ==
  [ op |-> "evaluate", n |-> 0, arg |-> "strategy", value |-> result,
    repeated |-> FALSE ]

\* Either engine in PAPER mode with the history seeded, the database
\* answering every read of the trading mode; event is the closed candle the
\* feed is about to deliver and calc what evaluate() returns for the candle
\* window that ends with it.
InitRedelivery ==
  /\ engine \in Engines
  /\ active_strategy \in
       (IF engine = "main" THEN Activations ELSE {"strategy"})
  /\ trading_mode = "PAPER"
  /\ paper_wallet \in InitialBalances
  /\ paper_trades \in SeedTables
  /\ \A pr \in Pairs : Len(CountedRows(paper_trades, pr)) <= max_open_trades
  /\ trades = << >>
  /\ real_orders = 0
  /\ tp_sl_orders = 0
  /\ time_ms = 0
  /\ stamp_pair = "none"
  /\ delivered = {}
  /\ ncandles = 0
  /\ pc = [p \in Procs |-> "idle"]
  /\ candle = [p \in Procs |-> NoCandle]
  /\ loc = [p \in Procs |-> NoLocals]
  /\ bot_log = [p \in Procs |-> << >>]
  /\ did = [p \in Procs |-> {}]
  /\ due = [p \in Procs |-> {}]
  /\ expected_wallet = paper_wallet
  /\ strategies =
       (IF engine = "multi" THEN {}
        ELSE IF active_strategy = "none" THEN {"simple_ema"}
        ELSE {"simple_ema", "enhanced_v2"})
  /\ active_strategy_name = (IF engine = "multi" THEN "none" ELSE active_strategy)
  /\ activated = << "none", active_strategy_name >>
  /\ call = NoCall
  /\ nevents = 0
  /\ window = << >>
  /\ ServiceIdle
  /\ \E n \in SeedLengths :
       /\ candle_buffer = [p \in Procs |-> Seeded(n)]
       /\ \E p \in Procs : Running(p) /\ event \in ClosedEvents(p, n)
  /\ \E result \in EvaluateResults : calc = Evaluated(result)

\* on_candlestick -> _update_candle with the closed candle of event, for the
\* first time or once more (same timestamp, same values).
Redeliver(p) ==
  /\ p = event.proc
  /\ UpdateCandle(p, event.pair, event.timestamp, TRUE,
                  << event.high, event.low, event.close >>)

\* _run_strategy on the window that ends with the candle of event: evaluate()
\* returns for it what it returned before.
StratReadAgain(p) == StratRead(p, calc.value)

NextRedelivery ==
  \E p \in Procs :
    \/ Redeliver(p)
    \/ CheckMode(p, TRUE)
    \/ CheckRead(p, TRUE)
    \/ CheckWallet(p)
    \/ SettleNext(p)
    \/ SettleDone(p)
    \/ StratMode(p, TRUE)
    \/ StratReadAgain(p)
    \/ \E rate \in Rates, stamp \in NextStamps(candle[p].pair) :
         PaperWallet(p, rate, stamp)
    \/ PaperDebit(p)
    \/ PaperInsert(p)
    \/ OnCandlestickReturn(p)

SpecRedelivery == InitRedelivery /\ [][NextRedelivery]_vars

\* Process p is handling a delivery of the candle that it has handled before.
HandlingAgain(p) == p = event.proc /\ ncandles >= 2 /\ pc[p] # "idle"

\* C34: processing a closed candle is idempotent against the same candle
\* window: while the same closed candle (same timestamp, same values) is
\* handled a second time, the open positions and the wallet balance stay
\* exactly as the first delivery left them.
C34_RedeliveryChangesNothing ==
  [][\A p \in Procs :
       (HandlingAgain(p) /\ StepOf(p))
         => /\ OpenRows(paper_trades') = OpenRows(paper_trades)
            /\ paper_wallet' = paper_wallet]_vars

\* Volume ratios to compare the volume sub-score at: below min_volume_ratio,
\* at it, between it and the average, at the average and above.
VolumeRatios == { Lit(5, 10), Lit(8, 10), Lit(9, 10), Float(1), Lit(12, 10) }

\* Every sub-score of calculate_confidence within its weight, and the volume
\* sub-score zero below min_volume_ratio and not above the score of a higher
\* ratio.
SubScoresCapped(ind, position_type) ==
  /\ confidence_ema(ind, position_type) <= Float(30)
  /\ confidence_macd(ind, position_type) <= Float(25)
  /\ confidence_rsi(ind.rsi, position_type) <= Float(20)
  /\ confidence_volume(ind.volume_ratio) <= Float(15)
  /\ confidence_trend(ind) <= Float(10)
  /\ \A ratio \in VolumeRatios :
       /\ confidence_volume(ratio) <= Float(15)
       /\ ratio < CONFIG_min_volume_ratio => confidence_volume(ratio) = 0
       /\ ratio <= ind.volume_ratio
            => confidence_volume(ratio) <= confidence_volume(ind.volume_ratio)

\* C35: in calculate_confidence each sub-score is bounded by its weight (EMA
\* 30, MACD 25, RSI 20, volume 15, trend strength 10), so the sum before
\* clamping never exceeds 100; the volume sub-score is non-decreasing in the
\* volume ratio, 0 below min_volume_ratio and never above 15.
C35_SubScoresWithinWeights ==
  calc.op = "calculate_confidence"
    => \A ind \in { compute_indicators(window) } :
         ~ema_missing(ind) => SubScoresCapped(ind, calc.arg)

\* The latest fast EMA minus the latest slow EMA of the closes, as _macd
\* rounds its result.
MacdOfTails(closes) ==
  With2(_ema(closes, CONFIG_macd_fast), _ema(closes, CONFIG_macd_slow),
        LAMBDA ema_fast, ema_slow :
          FRound(FSub(ema_fast[Len(ema_fast)], ema_slow[Len(ema_slow)]), 4))

\* C36: each MACD-line value is the fast EMA minus the slow EMA of the same
\* candle, both series aligned at their tails, so the current MACD equals the
\* latest fast EMA minus the latest slow EMA; and the histogram equals the
\* MACD minus its signal line.
C36_MacdAlignedAtTails ==
  calc.op = "compute_indicators"
    => \A closes \in { Closes(window) } :
         Len(closes) >= CONFIG_macd_slow + CONFIG_macd_signal
           => /\ calc.value.macd = MacdOfTails(closes)
              /\ calc.value.macd_histogram
                   = FSub(calc.value.macd, calc.value.macd_signal)

\* ------------------------------------------------------------ the bot manager
\* bot_manager.py: every 30 seconds sync_bots_with_config compares the bots it
\* tracks with the pairs enabled in pair_config.  A process is known by its
\* place in spawned (its pid); bot_processes holds per pair the pid tracked.
MaxSpawns == 5

MaxSyncs == 4

\* A subprocess.Popen object: the pair given to main.py and whether
\* proc.poll() is still None.
Process(pair, state) == [ pair |-> pair, state |-> state ]

\* set(bot_processes.keys())
running_pairs(processes) == { pr \in Pairs : processes[pr] # 0 }

every_enabled(enabled_pair_names, running) == enabled_pair_names

\* to_stop = running_pairs - enabled_pair_names
to_stop(enabled_pair_names, running) == running \ enabled_pair_names

\* to_start = enabled_pair_names - running_pairs
to_start(enabled_pair_names, running) == enabled_pair_names \ running

\* start_bot_for_pair on the manager's state m: Popen gives a process that is
\* tracked under the pair; when Popen raises the failure is logged and the
\* pair stays as it was.
start_bot_for_pair(m, pair, popen_ok) ==
  IF popen_ok
  THEN [ m EXCEPT !.spawned = Append(@, Process(pair, "running")),
                  !.bot_processes[pair] = Len(m.spawned) + 1 ]
  ELSE [ m EXCEPT !.failed = @ \cup {pair} ]

\* stop_bot_for_pair: terminate, wait five seconds, kill; in every case the
\* entry of the pair is deleted.
stop_bot_for_pair(m, pair) ==
  IF m.bot_processes[pair] = 0 THEN m
  ELSE [ m EXCEPT !.spawned[m.bot_processes[pair]].state = "exited",
                  !.bot_processes[pair] = 0,
                  !.stopped = @ \cup {pair} ]

\* The body of the last loop of sync_bots_with_config for one tracked pair.
restart_if_exited(m, pair, enabled_pair_names, popen_ok) ==
  IF m.spawned[m.bot_processes[pair]].state = "running" THEN m
  ELSE IF pair \in enabled_pair_names
       THEN start_bot_for_pair(
              [ m EXCEPT !.bot_processes[pair] = 0, !.exited = @ \cup {pair} ],
              pair, popen_ok)
       ELSE [ m EXCEPT !.bot_processes[pair] = 0, !.exited = @ \cup {pair} ]

RECURSIVE StopEach(_, _)
StopEach(m, pairs) ==
  IF pairs = {} THEN m
  ELSE LET pair == CHOOSE pr \in pairs : TRUE
       IN StopEach(stop_bot_for_pair(m, pair), pairs \ {pair})

RECURSIVE StartEach(_, _, _)
StartEach(m, pairs, failing) ==
  IF pairs = {} THEN m
  ELSE LET pair == CHOOSE pr \in pairs : TRUE
       IN StartEach(start_bot_for_pair(m, pair, pair \notin failing),
                    pairs \ {pair}, failing)

RECURSIVE RestartEach(_, _, _, _)
RestartEach(m, pairs, enabled_pair_names, failing) ==
  IF pairs = {} THEN m
  ELSE LET pair == CHOOSE pr \in pairs : TRUE
       IN RestartEach(restart_if_exited(m, pair, enabled_pair_names,
                                        pair \notin failing),
                      pairs \ {pair}, enabled_pair_names, failing)

\* sync_bots_with_config after db.get_enabled_pairs() has returned: failing are
\* the pairs for which Popen raises in the second loop, refailing those for
\* which it raises in the third.
sync_bots_with_config(m, enabled_pair_names, failing, refailing) ==
  LET running == running_pairs(m.bot_processes)
      stopped == StopEach(m, to_stop(enabled_pair_names, running))
      started == StartEach(stopped, to_start(enabled_pair_names, running),
                           failing)
  IN RestartEach(started, running_pairs(started.bot_processes),
                 enabled_pair_names, refailing)

ManagerFrame ==
  UNCHANGED << engine_vars, active_strategy, registry_vars, buffer_vars,
               strategy_vars, rest_call >>

\* One pass of the monitoring loop.  When db.get_enabled_pairs() raises, the
\* except clause logs the error and nothing else has happened.
Sync(read_ok, failing, refailing) ==
  /\ last_sync.n < MaxSyncs
  /\ IF read_ok
     THEN \E m \in { sync_bots_with_config(
                       [ bot_processes |-> bot_processes, spawned |-> spawned,
                         stopped |-> {}, exited |-> {}, failed |-> {} ],
                       enabled_pairs, failing, refailing) } :
            /\ Len(m.spawned) <= MaxSpawns
            /\ bot_processes' = m.bot_processes
            /\ spawned' = m.spawned
            /\ last_sync' = [ n |-> last_sync.n + 1, read |-> TRUE,
                              enabled |-> enabled_pairs,
                              stopped |-> m.stopped, exited |-> m.exited,
                              failed |-> m.failed ]
     ELSE /\ last_sync' = [ NoSync EXCEPT !.n = last_sync.n + 1 ]
          /\ UNCHANGED << bot_processes, spawned >>
  /\ UNCHANGED enabled_pairs
  /\ ManagerFrame

\* db.update_pair_enabled, called by the server when a pair is toggled.
UpdatePairEnabled(pair, enabled) ==
  /\ enabled_pairs' = IF enabled THEN enabled_pairs \cup {pair}
                      ELSE enabled_pairs \ {pair}
  /\ UNCHANGED << bot_processes, spawned, last_sync >>
  /\ ManagerFrame

\* A bot process ends by itself: main.py returns or dies of an exception.
BotExits(pid) ==
  /\ pid \in DOMAIN spawned
  /\ spawned[pid].state = "running"
  /\ spawned' = [ spawned EXCEPT ![pid].state = "exited" ]
  /\ UNCHANGED << enabled_pairs, bot_processes, last_sync >>
  /\ ManagerFrame

InitManager ==
  /\ AtStart
  /\ window = << >>
  /\ trading_mode = "PAPER"
  /\ strategies = {"simple_ema"}
  /\ candle_buffer = [p \in Procs |-> << >>]

NextManager ==
  \/ \E read_ok \in BOOLEAN, failing \in SUBSET Pairs,
        refailing \in SUBSET Pairs :
       Sync(read_ok, failing, refailing)
  \/ \E pair \in Pairs, enabled \in BOOLEAN : UpdatePairEnabled(pair, enabled)
  \/ \E pid \in 1..MaxSpawns : BotExits(pid)

SpecManager == InitManager /\ [][NextManager]_vars

\* The step is a whole run of sync_bots_with_config.
Synced == last_sync'.n # last_sync.n

RunningOf(pair) ==
  { pid \in DOMAIN spawned :
      spawned[pid].pair = pair /\ spawned[pid].state = "running" }

OneProcessPerPair ==
  /\ \A pair \in Pairs : Cardinality(RunningOf(pair)) <= 1
  /\ \A pair \in running_pairs(bot_processes) :
       /\ bot_processes[pair] \in DOMAIN spawned
       /\ spawned[bot_processes[pair]].pair = pair

\* The bot tracked for the pair has exited when the sync begins.
FoundExited(pair) ==
  /\ bot_processes[pair] # 0
  /\ spawned[bot_processes[pair]].state = "exited"

Removed(pair) == bot_processes'[pair] # bot_processes[pair]

Restarted(pair) ==
  /\ bot_processes'[pair] > bot_processes[pair]
  /\ spawned'[bot_processes'[pair]] = Process(pair, "running")

DEFAULT_max_retries == 3

MaxRestCalls == 2

RetryLimits == 0..DEFAULT_max_retries

\* What one requests.post / requests.get followed by raise_for_status and
\* resp.json() comes to.
Outcomes == { "ok", "rate_limited", "http_error", "network_error", "unexpected" }

\* api_secret as the callers pass it: a string, or None when the environment
\* variable is not set.
Secrets == { "str", "None" }

up_to(attempt, max_retries) == attempt <= max_retries

\* for attempt in range(max_retries)
in_range(attempt, max_retries) == attempt < max_retries

\* if attempt == max_retries - 1
is_last(attempt, max_retries) == attempt = max_retries - 1

\* bytes(self.secret, encoding="utf-8") raises TypeError for None.
signs(secret) == secret = "str"

RestFrame ==
  UNCHANGED << engine_vars, active_strategy, registry_vars, buffer_vars,
               strategy_vars, manager_vars >>

\* The call of _post or _get up to the loop: timestamp, json.dumps, hmac.
RestCall(method, secret, max_retries) ==
  /\ rest_call.status # "looping"
  /\ rest_call.n < MaxRestCalls
  /\ rest_call' =
       [ method |-> method, secret |-> secret, max_retries |-> max_retries,
         attempt |-> 0, requests |-> 0, slept |-> 0,
         status |-> IF signs(secret) THEN "looping" ELSE "raised",
         ret |-> "none", n |-> rest_call.n + 1 ]
  /\ RestFrame

\* One round of the loop: the request and the except clause it ends in.
RestAttempt(outcome) ==
  /\ rest_call.status = "looping"
  /\ in_range(rest_call.attempt, rest_call.max_retries)
  /\ \E sent \in { [ rest_call EXCEPT !.requests = @ + 1 ] } :
       CASE outcome = "ok" ->
              rest_call' = [ sent EXCEPT !.status = "returned", !.ret = "json" ]
         [] outcome = "rate_limited" ->
              rest_call' = [ sent EXCEPT !.attempt = @ + 1,
                                         !.slept = @ + Pow2(sent.attempt) ]
         [] outcome = "http_error" ->
              IF is_last(sent.attempt, sent.max_retries)
              THEN rest_call' = [ sent EXCEPT !.status = "returned",
                                              !.ret = "error_status" ]
              ELSE rest_call' = [ sent EXCEPT !.attempt = @ + 1,
                                              !.slept = @ + 1 ]
         [] outcome = "network_error" ->
              IF is_last(sent.attempt, sent.max_retries)
              THEN rest_call' = [ sent EXCEPT !.status = "returned",
                                              !.ret = "error" ]
              ELSE rest_call' = [ sent EXCEPT !.attempt = @ + 1,
                                              !.slept = @ + Pow2(sent.attempt) ]
         [] outcome = "unexpected" ->
              rest_call' = [ sent EXCEPT !.status = "returned", !.ret = "error" ]
  /\ RestFrame

\* The loop has run out: return {"error": "Max retries exceeded"}.
RestLoopEnd ==
  /\ rest_call.status = "looping"
  /\ ~in_range(rest_call.attempt, rest_call.max_retries)
  /\ rest_call' = [ rest_call EXCEPT !.status = "returned",
                                     !.ret = "max_retries_exceeded" ]
  /\ RestFrame

RestRound == RestLoopEnd \/ \E outcome \in Outcomes : RestAttempt(outcome)

InitRest ==
  /\ AtStart
  /\ window = << >>
  /\ trading_mode = "PAPER"
  /\ strategies = {"simple_ema"}
  /\ candle_buffer = [p \in Procs |-> << >>]

NextRest ==
  \/ \E method \in {"POST", "GET"}, secret \in Secrets,
        max_retries \in RetryLimits :
       RestCall(method, secret, max_retries)
  \/ \E outcome \in Outcomes : RestAttempt(outcome)
  \/ RestLoopEnd

SpecRest == InitRest /\ [][NextRest]_vars

\* The thread that called _post or _get runs on: every request ends within
\* its timeout of 10 seconds and every sleep is finite.
FairSpecRest == SpecRest /\ WF_vars(RestRound)

WithinRetries == rest_call.requests <= rest_call.max_retries

ReturnedValue ==
  rest_call.status = "returned"
    => rest_call.ret \in { "json", "error_status", "error",
                           "max_retries_exceeded" }

\* C38 as stated: _post and _get make at most max_retries HTTP attempts, never
\* raise to the caller, and every call returns a value.
C38_AlwaysReturns ==
  /\ [](WithinRetries /\ ReturnedValue /\ rest_call.status # "raised")
  /\ rest_call.status = "looping" ~> rest_call.status = "returned"

\* C38, amended: a call of _post or _get whose secret is a string makes at
\* most max_retries HTTP attempts, does not raise, and returns a value
\* whatever the requests come to; a call whose secret is None raises before
\* any request is sent.
C38_SignedCallReturns ==
  /\ [](/\ WithinRetries
        /\ ReturnedValue
        /\ rest_call.status = "raised"
             <=> rest_call.n > 0 /\ ~signs(rest_call.secret)
        /\ rest_call.status = "raised" => rest_call.requests = 0)
  /\ rest_call.status = "looping" ~> rest_call.status = "returned"

\* Every round of a call with the default max_retries was rate limited: the
\* call has slept 1 + 2 + 4 seconds and returned "Max retries exceeded".
C38_RetriesExhausted ==
  /\ rest_call.status = "returned"
  /\ rest_call.ret = "max_retries_exceeded"
  /\ rest_call.max_retries = DEFAULT_max_retries
  /\ rest_call.requests = DEFAULT_max_retries
  /\ rest_call.slept = 7

====
